---- MODULE Spec2Model ----
(***************************************************************************)
(* A model of cvscan's parallel consensus review engine:                   *)
(*   - the fan-out executor ParMap / ParMapRange / ParMapDo (utils.go),     *)
(*   - the model stack built by BuildCandidateReviewModel (model.go) and    *)
(*     the feedback map func built by buildReviewCandidateReviewMapFunc,    *)
(*   - the consensus aggregation of reviewSingleCandidate.                  *)
(***************************************************************************)
EXTENDS Integers, Sequences, FiniteSets, TLC

(***************************************************************************)
(* Bounds of the model.                                                    *)
(***************************************************************************)
MaxN == 3          \* longest input sequence handed to ParMap
MaxInput == 2      \* ParMap inputs are drawn from 0..MaxInput
MaxViews == 2      \* most views of a run
MaxDocs == 2       \* most documents of a run
MaxRepeats == 2    \* largest -r of a run
MaxUnits == 4      \* most (view, document, repeat) calls of a run
MaxC == 2          \* largest -c of a run
MaxDown == 1       \* most calls of a run whose transport is down
MaxAggRepeats == 4 \* most repeats whose answers are aggregated on their own

(***************************************************************************)
(* Program constants.                                                      *)
(***************************************************************************)
RetryModelRetries == 8    \* jpf.NewRetryModel(model, 8, ...)
FeedbackRetries == 10     \* jpf.NewFeedbackMapFunc(..., jpf.UserRole, 10)

(***************************************************************************)
(* Go's nil, as a value that can be compared with errors and slices.       *)
(***************************************************************************)
Nil == <<>>
Some(x) == <<x>>

VARIABLES
    inputs,      \* ParMap: the inputs slice
    results,     \* ParMap: results := make([]U, len(inputs))
    errs,        \* ParMap: errs := make([]error, len(inputs))
    wg,          \* ParMap: the WaitGroup counter
    pmPc,        \* ParMap: where the calling goroutine is: "loop", "wait", "done"
    pmIdx,       \* ParMap: the index the range loop is at
    goroutine,   \* ParMap: per index, "none", "spawned", "succeeded" or "failed"
    order,       \* ParMap: indexes in the order their goroutines completed fn
    ret,         \* ParMap: the returned pair [results, err] once pmPc = "done"
    numRepeats,      \* main: the -r flag
    maxConcurrency,  \* main: the -c flag, the size of the builder's limiter
    views,           \* cfg.Views: view name -> checklist
    pdfContents,     \* main: the texts of the documents, in order
    pdfNames,        \* main: the paths of the documents, in the same order
    weights,         \* cfg.Views: view name -> key -> ScoreChecklist[key].Weight
    env,             \* per call, how the remote transport behaves for it
    prev,            \* what the previous run of the program returned, if there was one
    pc,              \* per call, where its goroutine is in the pipeline
    msgs,            \* per call, the conversation the map func sends next
    fb,              \* per call, the feedback loop's iteration counter
    tries,           \* per call, the retry model's iteration counter
    outcome,         \* per call, what reviewCandidateOnce returned
    limiter,         \* simpleModelBuilder.concLimiter: slots taken
    cache,           \* simpleModelBuilder.cache: fingerprint -> response
    hist,            \* per call, counters of what has happened to it
    docPc,           \* per (view, document): "idle", "running", "done"
    docRet,          \* per (view, document): what reviewSingleCandidate returned
    viewPc,          \* per view: "idle", "running", "done"
    viewRet,         \* per view: what runView returned
    mainPc,          \* main: "start", "wait", "done"
    mainRet,         \* main: the error ParMapDo returned
    files,           \* per view: the reports runView wrote to its CSV files
    csv,             \* per view: the rows of the CSV file of each mode
    resultsPerRepeat,  \* reviewSingleCandidate: the joined answers of the repeats
    probs,             \* reviewSingleCandidate: the map it returns
    aggPc,             \* reviewSingleCandidate: "idle", "joined" or "returned"
    dir,         \* fileCVManager: the files under cvm.dir, file name -> data
    stored,      \* history: per id, the CV last stored under it and not deleted since
    cvRet,       \* fileCVManager: the last operation and what it returned
    jsonPc,      \* config: "idle", "read", "loaded", "encoded" or "reloaded"
    data,        \* config: the JSON object of a checklist item in config.json
    checklistItem,  \* config: the ConfigScoreChecklistItem decoded from data
    encoded,     \* config: what item.MarshalJSON returned
    decoded      \* config: the item decoded from encoded

pmVars == <<inputs, results, errs, wg, pmPc, pmIdx, goroutine, order, ret>>
cfgVars == <<numRepeats, maxConcurrency, views, pdfContents, pdfNames, weights, env, prev>>
callVars == <<pc, msgs, fb, tries, outcome, limiter, cache, hist>>
runVars == <<docPc, docRet, viewPc, viewRet, mainPc, mainRet, files, csv>>
aggVars == <<resultsPerRepeat, probs, aggPc>>
storeVars == <<dir, stored, cvRet>>
jsonVars == <<jsonPc, data, checklistItem, encoded, decoded>>

vars == <<pmVars, aggVars, cfgVars, callVars, runVars, storeVars, jsonVars>>

(***************************************************************************)
(* utils.go: the fan-out executor.                                         *)
(***************************************************************************)

\* The unit of work handed to ParMap in the model: value i*i on success,
\* an error naming its input on failure.
Fn(input) == input * input
FnErr(input) == <<"fn failed", input>>

\* The zero value of U that make([]U, n) fills results with.
ZeroU == 0

\* ParMapRange: inputs[i] = i for i in [0, upTo).
ParMapRange(upTo) == [i \in 1..upTo |-> i - 1]

\* slices.DeleteFunc(errs, func(err) bool { return err == nil })
DeleteNil(es) == SelectSeq(es, LAMBDA e : e # Nil)

\* errors.Join(errs...): an error that wraps every given error, in order.
JoinFirstOnly(es) == <<"join", <<Head(es)>>>>
Join(es) == <<"join", es>>

\* The errors an error made by errors.Join wraps.
Joined(e) == e[2]

\* Lines 47-51: what ParMap returns once wg.Wait() has returned.
ParMapReturnPartial(rs, es) ==
    IF Len(DeleteNil(es)) > 0
    THEN [results |-> Some(rs), err |-> Some(Join(DeleteNil(es)))]
    ELSE [results |-> Some(rs), err |-> Nil]
ParMapReturn(rs, es) ==
    IF Len(DeleteNil(es)) > 0
    THEN [results |-> Nil, err |-> Some(Join(DeleteNil(es)))]
    ELSE [results |-> Some(rs), err |-> Nil]

\* wg.Wait() returns when the counter is zero.
WaitReturnsFailFast == wg = 0 \/ \E i \in DOMAIN errs : errs[i] # Nil
WaitReturns == wg = 0

\* The slot of results / errs that the goroutine of index i writes.
SlotCompletionOrder(i) == Len(order) + 1
Slot(i) == i

PMInit ==
    /\ \E n \in 0..MaxN :
         \/ inputs \in [1..n -> 0..MaxInput]
         \/ inputs = ParMapRange(n)
    /\ results = [i \in DOMAIN inputs |-> ZeroU]
    /\ errs = [i \in DOMAIN inputs |-> Nil]
    /\ wg = Len(inputs)
    /\ pmPc = IF Len(inputs) = 0 THEN "wait" ELSE "loop"
    /\ pmIdx = 1
    /\ goroutine = [i \in DOMAIN inputs |-> "none"]
    /\ order = <<>>
    /\ ret = [results |-> Nil, err |-> Nil]

\* Lines 35-45: one iteration of the range loop starts goroutine pmIdx.
Spawn ==
    /\ pmPc = "loop"
    /\ goroutine' = [goroutine EXCEPT ![pmIdx] = "spawned"]
    /\ pmIdx' = pmIdx + 1
    /\ pmPc' = IF pmIdx = Len(inputs) THEN "wait" ELSE "loop"
    /\ UNCHANGED <<inputs, results, errs, wg, order, ret>>
    /\ UNCHANGED <<aggVars, cfgVars, storeVars, jsonVars, callVars, runVars>>

\* Lines 36-44: goroutine i calls fn, stores the error or the result, and
\* the deferred wg.Done() runs.
RunUnit(i) ==
    /\ goroutine[i] = "spawned"
    /\ \E ok \in BOOLEAN :
         IF ok
         THEN /\ results' = [results EXCEPT ![Slot(i)] = Fn(inputs[i])]
              /\ errs' = errs
              /\ goroutine' = [goroutine EXCEPT ![i] = "succeeded"]
         ELSE /\ errs' = [errs EXCEPT ![Slot(i)] = FnErr(inputs[i])]
              /\ results' = results
              /\ goroutine' = [goroutine EXCEPT ![i] = "failed"]
    /\ wg' = wg - 1
    /\ order' = Append(order, i)
    /\ UNCHANGED <<inputs, pmPc, pmIdx, ret>>
    /\ UNCHANGED <<aggVars, cfgVars, storeVars, jsonVars, callVars, runVars>>

\* Lines 46-51: wg.Wait() returns and ParMap returns.
ParMapJoin ==
    /\ pmPc = "wait"
    /\ WaitReturns
    /\ ret' = ParMapReturn(results, errs)
    /\ pmPc' = "done"
    /\ UNCHANGED <<inputs, results, errs, wg, pmIdx, goroutine, order>>
    /\ UNCHANGED <<aggVars, cfgVars, storeVars, jsonVars, callVars, runVars>>

PMNext ==
    \/ Spawn
    \/ \E i \in DOMAIN inputs : RunUnit(i)
    \/ ParMapJoin


(***************************************************************************)
(* The review run: checklists, requests and responses.                     *)
(***************************************************************************)
\* A text (a question, a resume, a prompt) is the sequence of its pieces;
\* concatenating texts concatenates the sequences.
Item1 == [key |-> "k1", question |-> <<"q1">>]
Item2 == [key |-> "k2", question |-> <<"q2">>]

\* The checklists a view of the model may have (map[string]string).
OneChecklists == {{}, {Item1}, {Item2}}
RunChecklists == {{}, {Item1}, {Item1, Item2}}

\* The keys of a checklist.
Keys(checklist) == {item.key : item \in checklist}

\* A key that no checklist asks about.
ExtraKey == "other"

\* The document texts of the model.
Cv1 == <<"cv1">>
Cv2 == <<"cv2">>
Texts == {Cv1, Cv2}

AllViews == 1..MaxViews
AllDocs == 1..MaxDocs
AllReviews == AllViews \X AllDocs
AllUnits == AllViews \X AllDocs \X (0..(MaxRepeats - 1))

\* The calls reviewSingleCandidate(d) of view v makes: one per repeat.
UnitsOf(v, d) == {<<v, d, r>> : r \in 0..(numRepeats - 1)}

\* A candidateReviewResponse: the keys it answers and those answered true.
AnswersOver(S) == {[keys |-> S, yes |-> T] : T \in SUBSET S}

\* A response that leaves out one key of the checklist.
IncompleteResponse(keys) ==
    LET k0 == CHOOSE k \in keys : TRUE
    IN  [keys |-> keys \ {k0}, yes |-> keys \ {k0}]

\* A complete response that also answers a key nobody asked about.
OverfullResponse(keys) == [keys |-> keys \cup {ExtraKey}, yes |-> {ExtraKey}]

\* reviewCandidateOnce, lines 141-145: the request of call u.
RequestFirstRepeat(u) ==
    [RepeatNumber |-> 0, Checklist |-> views[u[1]], Resume |-> pdfContents[u[2]]]
Request(u) ==
    [RepeatNumber |-> u[3], Checklist |-> views[u[1]], Resume |-> pdfContents[u[2]]]

\* The rank of a key in the ascending order of strings, the order in which
\* text/template ranges over a map and sort.Strings leaves a slice.
KeyRank(k) == CASE k = "k1" -> 1 [] k = "k2" -> 2 [] OTHER -> 3

\* The least key of a non-empty set of keys.
MinKey(S) == CHOOSE k \in S : \A j \in S : KeyRank(k) <= KeyRank(j)

\* The template prints the repeat number in decimal.
Itoa(n) == CASE n = 0 -> "0" [] n = 1 -> "1" [] n = 2 -> "2" [] OTHER -> "3"

\* The template's range over .Checklist: a line "- key: question" per
\* item, in ascending key order, nothing escaped.
RECURSIVE RenderChecklist(_)
RenderChecklist(checklist) ==
    IF checklist = {} THEN <<>>
    ELSE LET item == CHOOSE i \in checklist : i.key = MinKey(Keys(checklist))
         IN  <<"- ", item.key, ": ">> \o item.question \o <<"<nl>">>
                 \o RenderChecklist(checklist \ {item})

\* simpleCandidateReviewTemplate: the instruction and the "Checklist:"
\* heading, the items, the "Resume:" heading, the resume, a blank line and
\* the repeat number, as one text.
Render(req) ==
    <<"Checklist:">> \o RenderChecklist(req.Checklist)
        \o <<"Resume:">> \o req.Resume \o <<"<nl>", Itoa(req.RepeatNumber)>>

\* The conversation the map func starts with: the rendered prompt, no turns.
BuildInputMessages(req) == [prompt |-> Render(req), turns |-> <<>>]

\* The cached model's key of a conversation.
CacheKey(m) == <<m.prompt, m.turns>>

\* The validator of lines 166-177: the checklist keys the response lacks.
MissingKeysAny(input, response) ==
    IF Keys(input.Checklist) \cap response.keys = {}
    THEN Keys(input.Checklist) ELSE {}
MissingKeys(input, response) ==
    {k \in Keys(input.Checklist) : k \notin response.keys}

Validate(input, response) == MissingKeys(input, response) = {}

\* reviewCandidateOnce, lines 150-154: the answer of every key of the result.
Answers(result) ==
    [keys |-> result.keys, yes |-> {k \in result.keys : k \in result.yes}]

ErrRetriesExhausted == <<"retry model: all attempts failed">>
ErrInvalidResponse == <<"map func: invalid response after all retries">>

\* What the remote transport may answer to an attempt of call u.
TransportOutcomes(u) ==
    LET keys == Keys(views[u[1]])
        good == {[kind |-> "response", body |-> r] : r \in AnswersOver(keys)}
        odd == {[kind |-> "response", body |-> IncompleteResponse(keys)],
                [kind |-> "response", body |-> OverfullResponse(keys)]}
        fail == {[kind |-> "error", body |-> [keys |-> {}, yes |-> {}]]}
    IN  CASE env[u] = "up" -> good
          [] env[u] = "down" -> fail
          [] OTHER -> good \cup odd \cup fail

(***************************************************************************)
(* model.go: the model stack of BuildCandidateReviewModel, outermost       *)
(* first: cached model, concurrent-limited model, retry model, transport.  *)
(* part_000: the feedback map func around it.                              *)
(***************************************************************************)

\* NewCachedModel: the lookup of a conversation.
CacheHitNever(key) == FALSE
CacheHit(key) == key \in DOMAIN cache

\* NewConcurrentLimitedModel over NewMaxConcurrentLimiter(maxConcurrency):
\* a slot is free.
CanAcquireAlways == TRUE
CanAcquireOffByOne == limiter + 1 < maxConcurrency
CanAcquire == limiter < maxConcurrency

\* The concurrent-limited model gives its slot back when the call it wraps
\* returns, with a response or (failed) with an error: the slots taken
\* after that.
ReleaseOnSuccessOnly(slots, failed) == IF failed THEN slots ELSE slots - 1
Release(slots, failed) == slots - 1

\* The retry model runs inside the concurrent-limited model: the slots
\* taken when a failed attempt is followed by the delay.
SlotsReleasedForDelay(slots) == slots - 1
SlotsDuringDelay(slots) == slots

\* The cached model stores the response of the model it wraps under the
\* conversation's key, replacing what was there.
CacheStoreNothing(c, key, body) == c
CacheStore(c, key, body) == (key :> body) @@ c

\* The cached model returns an error of the model it wraps to its caller:
\* the cache after that.
CacheAfterErrorStoresEmpty(c, key) == (key :> [keys |-> {}, yes |-> {}]) @@ c
CacheAfterError(c, key) == c

\* NewRetryModel(model, 8, ...): after `failed` failed attempts before this
\* one, whether a failed attempt is followed by another.
RetryContinuesOnceMore(failed) == failed <= RetryModelRetries
RetryContinues(failed) == failed < RetryModelRetries

\* NewFeedbackMapFunc(..., 10): after `failed` invalid responses before
\* this one, whether an invalid response is followed by another call.
FeedbackContinuesNever(failed) == FALSE
FeedbackContinuesOnceMore(failed) == failed <= FeedbackRetries
FeedbackContinues(failed) == failed < FeedbackRetries

NoHist ==
    [modelCalls |-> 0, cacheHits |-> 0, slotsTaken |-> 0, transportCalls |-> 0,
     transportErrs |-> 0, invalidSeen |-> 0, validSeen |-> 0]

NoOutcome == [answers |-> Nil, err |-> Nil]

\* The counters of call u after the model stack handed response r to the map func.
Seen(h, u, r) ==
    IF MissingKeys(Request(u), r) = {}
    THEN [h EXCEPT !.validSeen = @ + 1]
    ELSE [h EXCEPT !.invalidSeen = @ + 1]

\* The map func's loop body after model.Respond returned response r:
\* decode and validate; return the result, or append the feedback and go
\* round again, or give up.
Deliver(u, r) ==
    IF Validate(Request(u), r)
    THEN /\ outcome' = [outcome EXCEPT ![u] = [answers |-> Some(Answers(r)), err |-> Nil]]
         /\ pc' = [pc EXCEPT ![u] = "done"]
         /\ UNCHANGED <<msgs, fb>>
    ELSE IF FeedbackContinues(fb[u])
    THEN /\ msgs' = [msgs EXCEPT ![u].turns = Append(@, r)]
         /\ fb' = [fb EXCEPT ![u] = @ + 1]
         /\ pc' = [pc EXCEPT ![u] = "call"]
         /\ UNCHANGED outcome
    ELSE /\ outcome' = [outcome EXCEPT ![u] = [answers |-> Nil, err |-> Some(ErrInvalidResponse)]]
         /\ pc' = [pc EXCEPT ![u] = "done"]
         /\ UNCHANGED <<msgs, fb>>

\* The map func calls model.Respond: the cached model looks the conversation
\* up and returns the stored response, or passes the call on to the limiter.
CachedRespond(u) ==
    /\ pc[u] = "call"
    /\ IF CacheHit(CacheKey(msgs[u]))
       THEN /\ Deliver(u, cache[CacheKey(msgs[u])])
            /\ hist' = [hist EXCEPT ![u] =
                   Seen([@ EXCEPT !.modelCalls = @ + 1, !.cacheHits = @ + 1],
                        u, cache[CacheKey(msgs[u])])]
       ELSE /\ pc' = [pc EXCEPT ![u] = "acquire"]
            /\ hist' = [hist EXCEPT ![u].modelCalls = @ + 1]
            /\ UNCHANGED <<msgs, fb, outcome>>
    /\ UNCHANGED <<tries, limiter, cache>>
    /\ UNCHANGED <<pmVars, aggVars, cfgVars, storeVars, jsonVars, runVars>>

\* The concurrent-limited model takes a slot of the builder's limiter and
\* enters the retry model.
Acquire(u) ==
    /\ pc[u] = "acquire"
    /\ CanAcquire
    /\ limiter' = limiter + 1
    /\ pc' = [pc EXCEPT ![u] = "attempt"]
    /\ tries' = [tries EXCEPT ![u] = 0]
    /\ hist' = [hist EXCEPT ![u].slotsTaken = @ + 1]
    /\ UNCHANGED <<msgs, fb, outcome, cache>>
    /\ UNCHANGED <<pmVars, aggVars, cfgVars, storeVars, jsonVars, runVars>>

\* One attempt of the retry model: the transport answers. A response ends
\* the retry loop: the limiter's slot is released, the cached model stores
\* the response under the conversation's key and the map func gets it. An
\* error is followed by the delay and another attempt, or, after the last
\* attempt, by the release of the slot and the error going up through the
\* cached model (which stores nothing) to the caller of the map func.
TransportRespond(u) ==
    /\ pc[u] = "attempt"
    /\ \E o \in TransportOutcomes(u) :
         IF o.kind = "response"
         THEN /\ limiter' = Release(limiter, FALSE)
              /\ cache' = CacheStore(cache, CacheKey(msgs[u]), o.body)
              /\ Deliver(u, o.body)
              /\ hist' = [hist EXCEPT ![u] =
                     Seen([@ EXCEPT !.transportCalls = @ + 1], u, o.body)]
              /\ UNCHANGED tries
         ELSE IF RetryContinues(tries[u])
         THEN /\ tries' = [tries EXCEPT ![u] = @ + 1]
              /\ pc' = [pc EXCEPT ![u] = "sleep"]
              /\ hist' = [hist EXCEPT ![u].transportCalls = @ + 1,
                                      ![u].transportErrs = @ + 1]
              /\ limiter' = SlotsDuringDelay(limiter)
              /\ UNCHANGED <<msgs, fb, outcome, cache>>
         ELSE /\ limiter' = Release(limiter, TRUE)
              /\ outcome' = [outcome EXCEPT ![u] =
                     [answers |-> Nil, err |-> Some(ErrRetriesExhausted)]]
              /\ pc' = [pc EXCEPT ![u] = "done"]
              /\ hist' = [hist EXCEPT ![u].transportCalls = @ + 1,
                                      ![u].transportErrs = @ + 1]
              /\ cache' = CacheAfterError(cache, CacheKey(msgs[u]))
              /\ UNCHANGED <<msgs, fb, tries>>
    /\ UNCHANGED <<pmVars, aggVars, cfgVars, storeVars, jsonVars, runVars>>

\* The retry model's delay (WithDelay) is over.
Wake(u) ==
    /\ pc[u] = "sleep"
    /\ pc' = [pc EXCEPT ![u] = "attempt"]
    /\ UNCHANGED <<msgs, fb, tries, outcome, limiter, cache, hist>>
    /\ UNCHANGED <<pmVars, aggVars, cfgVars, storeVars, jsonVars, runVars>>

(***************************************************************************)
(* part_000: CandidateQuestionResult and the consensus aggregation.        *)
(* A float64 probability is kept as the exact fraction num / den.          *)
(***************************************************************************)
Half == [num |-> 1, den |-> 2]
One == [num |-> 1, den |-> 1]
RatGT(a, b) == a.num * b.den > b.num * a.den
RatGE(a, b) == a.num * b.den >= b.num * a.den
RatEq(a, b) == a.num * b.den = b.num * a.den
RatSub(a, b) == [num |-> a.num * b.den - b.num * a.den, den |-> a.den * b.den]
RatMin(a, b) == IF RatGT(a, b) THEN b ELSE a
RatTimes(a, n) == [num |-> a.num * n, den |-> a.den]

\* IsTrue, lines 18-20.
IsTrueAtLeastHalf(c) == RatGE(c.probability, Half)
IsTrue(c) == RatGT(c.probability, Half)

\* Inconsistency, lines 23-25.
InconsistencyNotDoubled(c) == RatMin(c.probability, RatSub(One, c.probability))
Inconsistency(c) == RatTimes(RatMin(c.probability, RatSub(One, c.probability)), 2)

\* Lines 107-110: delta is 1 for the answer true and 0 for false.
DeltaAlwaysOne(v) == 1
Delta(v) == IF v THEN 1 ELSE 0

\* Lines 106-114: one repeat's answers added to the sums kept in probs.
AddRepeat(sums, answers) ==
    [k \in (DOMAIN sums) \cup answers.keys |->
        IF k \in answers.keys
        THEN (IF k \in DOMAIN sums THEN sums[k] ELSE 0) + Delta(k \in answers.yes)
        ELSE sums[k]]

\* Lines 105-115: the loop over resultsPerRepeat.
RECURSIVE SumRepeats(_, _)
SumRepeats(sums, perRepeat) ==
    IF perRepeat = <<>>
    THEN sums
    ELSE SumRepeats(AddRepeat(sums, Head(perRepeat)), Tail(perRepeat))

\* Lines 104-121: the aggregation of reviewSingleCandidate.
AggregateNoDivision(perRepeat, repeats) ==
    LET sums == SumRepeats([k \in {} |-> 0], perRepeat)
    IN  [k \in DOMAIN sums |-> [probability |-> [num |-> sums[k], den |-> 1]]]
Aggregate(perRepeat, repeats) ==
    LET sums == SumRepeats([k \in {} |-> 0], perRepeat)
    IN  [k \in DOMAIN sums |-> [probability |-> [num |-> sums[k], den |-> repeats]]]

(***************************************************************************)
(* main.go and part_000: the run, as nested fan-outs over ParMap.          *)
(***************************************************************************)
NilMap == [k \in {} |-> 0]
NilAnswers == [keys |-> {}, yes |-> {}]

\* The error slot a ParMap goroutine fills from a returned error.
ErrSlot(err) == IF err = Nil THEN Nil ELSE err[1]

\* wg.Wait() of the ParMapRange over the repeats of document d of view v:
\* every repeat's goroutine has returned.
RepeatsJoinedFailFast(v, d) ==
    \/ \A u \in UnitsOf(v, d) : pc[u] = "done"
    \/ \E u \in UnitsOf(v, d) : pc[u] = "done" /\ outcome[u].err # Nil
RepeatsJoined(v, d) == \A u \in UnitsOf(v, d) : pc[u] = "done"

\* wg.Wait() of the ParMapRange over the documents of view v.
DocsJoined(v) == \A d \in DOMAIN pdfContents : docPc[<<v, d>>] = "done"

\* wg.Wait() of the ParMapDo over the views.
ViewsJoinedFailFast ==
    \/ \A v \in DOMAIN views : viewPc[v] = "done"
    \/ \E v \in DOMAIN views : viewPc[v] = "done" /\ viewRet[v].err # Nil
ViewsJoined == \A v \in DOMAIN views : viewPc[v] = "done"

\* reviewSingleCandidate, lines 100-121, after the join: the error and no
\* mapping, or the aggregated mapping.
ReviewSingleCandidateReturn(joined, repeats) ==
    IF joined.err # Nil
    THEN [res |-> Nil, err |-> joined.err]
    ELSE [res |-> Some(Aggregate(joined.results[1], repeats)), err |-> Nil]

(***************************************************************************)
(* main.go, runView: the reports of a view, their scores and their order.  *)
(* A path is a directory and a base name; names are ranked by the          *)
(* integers that stand for them, as strings are by <.                      *)
(***************************************************************************)
\* part_005, UnmarshalJSON: the weight of an item that gives none.
DefaultWeight == 1

\* The zero value ScoreChecklist[key] yields for a key the view lacks.
ZeroWeight == 0

\* The configuration the runs that do not vary it have: every weight the
\* default, document d at path dir 1, base d.
DefaultConfig ==
    /\ weights = [v \in DOMAIN views |-> [k \in Keys(views[v]) |-> DefaultWeight]]
    /\ pdfNames = [d \in DOMAIN pdfContents |-> [dir |-> 1, base |-> d]]

\* filepath.Base
Base(path) == path.base

\* view.ScoreChecklist[key].Weight
Weight(v, key) == IF key \in DOMAIN weights[v] THEN weights[v][key] ELSE ZeroWeight

RECURSIVE SumWeights(_, _)
SumWeights(v, S) ==
    IF S = {} THEN 0
    ELSE LET k == CHOOSE x \in S : TRUE
         IN  Weight(v, k) + SumWeights(v, S \ {k})

\* runView, lines 129-135: the weights of the keys of the result that are true.
FinalScoreAllKeys(v, res) == SumWeights(v, DOMAIN res)
FinalScore(v, res) == SumWeights(v, {k \in DOMAIN res : IsTrue(res[k])})

\* runView, lines 127-142: one report per result, in the order of the documents.
Reports(v, result) ==
    [i \in DOMAIN result |->
        [FileName |-> Base(pdfNames[i]), FileLoc |-> pdfNames[i],
         Checklist |-> result[i], FinalScore |-> FinalScore(v, result[i])]]

\* runView, lines 143-151: the less function given to sort.Slice.
LessNoTieBreak(a, b) == a.FinalScore > b.FinalScore
Less(a, b) ==
    IF a.FinalScore > b.FinalScore THEN TRUE
    ELSE IF a.FinalScore < b.FinalScore THEN FALSE
    ELSE a.FileName < b.FileName

Perms(n) == {f \in [1..n -> 1..n] : \A i \in 1..n, j \in 1..n : i # j => f[i] # f[j]}

\* sort.Slice is not stable: it leaves the reports in some order in which
\* no report is less than one before it.
SortSlice(reports) ==
    {p \in {[i \in DOMAIN reports |-> reports[f[i]]] : f \in Perms(Len(reports))} :
        \A i \in DOMAIN p, j \in DOMAIN p : i < j => ~Less(p[j], p[i])}

\* ReportMode
Modes == {"Boolean", "Probability", "Inconsistency"}

\* WriteCandidateReportsAsCSV, lines 80-86: the keys of the Checklist maps
\* of the reports.
KeySet(reports) == UNION {DOMAIN reports[i].Checklist : i \in DOMAIN reports}

\* Lines 89-93: the keys as a slice, sorted by sort.Strings.
RECURSIVE SortStrings(_)
SortStrings(S) ==
    IF S = {} THEN <<>> ELSE <<MinKey(S)>> \o SortStrings(S \ {MinKey(S)})

\* Lines 96-98: the header row.
Header(keys) == <<"FileName", "FileLoc">> \o keys \o <<"FinalScore">>

\* r.Checklist[k]: the result of key k, the zero value if the map lacks it.
Lookup(checklist, k) ==
    IF k \in DOMAIN checklist THEN checklist[k]
    ELSE [probability |-> [num |-> 0, den |-> 1]]

\* fmt.Sprintf("%.3f", x) of x in [0, 1]: x rounded to thousandths.
Sprintf3(x) == <<"%.3f", (2000 * x.num + x.den) \div (2 * x.den)>>

\* strconv.FormatFloat(x, 'f', -1, 64) of a sum of integer weights.
FormatFloat(x) == <<"f", x>>

\* Lines 110-121: the cell of key k in the row of report r.
Cell(r, k, mode) ==
    CASE mode = "Boolean" ->
           IF IsTrue(Lookup(r.Checklist, k)) THEN <<"true">> ELSE <<"false">>
      [] mode = "Probability" -> Sprintf3(Lookup(r.Checklist, k).probability)
      [] OTHER -> Sprintf3(Inconsistency(Lookup(r.Checklist, k)))

\* Lines 104-129: the row of report r.
RowOwnKeys(r, keys, mode) ==
    <<<<"s", r.FileName>>, <<"s", r.FileLoc>>>>
        \o [i \in 1..Cardinality(DOMAIN r.Checklist) |->
               Cell(r, SortStrings(DOMAIN r.Checklist)[i], mode)]
        \o <<FormatFloat(r.FinalScore)>>
Row(r, keys, mode) ==
    <<<<"s", r.FileName>>, <<"s", r.FileLoc>>>>
        \o [i \in DOMAIN keys |-> Cell(r, keys[i], mode)]
        \o <<FormatFloat(r.FinalScore)>>

\* WriteCandidateReportsAsCSV: the rows written, the header first.
WriteCandidateReportsAsCSV(reports, mode) ==
    <<Header(SortStrings(KeySet(reports)))>>
        \o [i \in DOMAIN reports |-> Row(reports[i], SortStrings(KeySet(reports)), mode)]

\* runView, lines 123-165, after ReviewCandidates returned rc: its error is
\* returned and nothing is written, or the sorted reports are written to
\* the three CSV files of the view.
RunViewReturn(v, rc) ==
    IF rc.err # Nil
    THEN /\ viewRet' = [viewRet EXCEPT ![v] = [err |-> rc.err, result |-> rc.results]]
         /\ UNCHANGED <<files, csv>>
    ELSE /\ viewRet' = [viewRet EXCEPT ![v] = [err |-> Nil, result |-> rc.results]]
         /\ \E sorted \in SortSlice(Reports(v, rc.results[1])) :
              /\ files' = [files EXCEPT ![v] = Some(sorted)]
              /\ csv' = [csv EXCEPT ![v] =
                     Some([mode \in Modes |-> WriteCandidateReportsAsCSV(sorted, mode)])]

\* ReviewCandidates, lines 34-41: what it returns at once, if anything:
\* no results without resumes, a nil map per resume without questions.
ReviewCandidatesEarlyErrNoResumes(checklist, resumes) ==
    IF Len(resumes) = 0
    THEN Some([results |-> Nil, err |-> Some(<<"no resumes">>)])
    ELSE IF checklist = {}
    THEN Some([results |-> Some([d \in DOMAIN resumes |-> NilMap]), err |-> Nil])
    ELSE Nil
ReviewCandidatesEarlyNoChecklistCheck(checklist, resumes) ==
    IF Len(resumes) = 0
    THEN Some([results |-> Some(<<>>), err |-> Nil])
    ELSE Nil
ReviewCandidatesEarly(checklist, resumes) ==
    IF Len(resumes) = 0
    THEN Some([results |-> Some(<<>>), err |-> Nil])
    ELSE IF checklist = {}
    THEN Some([results |-> Some([d \in DOMAIN resumes |-> NilMap]), err |-> Nil])
    ELSE Nil

\* AnswerQuestionsForCandidates (part_002), lines 17-24: the same two
\* returns, for its questions.
AnswerQuestionsEarly(questions, resumes) ==
    IF Len(resumes) = 0
    THEN Some([results |-> Some(<<>>), err |-> Nil])
    ELSE IF questions = {}
    THEN Some([results |-> Some([d \in DOMAIN resumes |-> NilMap]), err |-> Nil])
    ELSE Nil

\* main, lines 97-100: ParMapDo starts a goroutine per view.
MainStart ==
    /\ mainPc = "start"
    /\ viewPc' = [v \in AllViews |-> IF v \in DOMAIN views THEN "spawned" ELSE "idle"]
    /\ mainPc' = "wait"
    /\ UNCHANGED <<docPc, docRet, viewRet, mainRet, files, csv>>
    /\ UNCHANGED <<pmVars, aggVars, cfgVars, storeVars, jsonVars, callVars>>

\* runView calls ReviewCandidates: without resumes or without questions it
\* returns at once and runView writes its reports; otherwise execute starts
\* a goroutine per document.
ViewBegin(v) ==
    /\ viewPc[v] = "spawned"
    /\ IF ReviewCandidatesEarly(views[v], pdfContents) # Nil
       THEN /\ RunViewReturn(v, ReviewCandidatesEarly(views[v], pdfContents)[1])
            /\ viewPc' = [viewPc EXCEPT ![v] = "done"]
            /\ UNCHANGED docPc
       ELSE /\ docPc' = [x \in AllReviews |->
                   IF x[1] = v /\ x[2] \in DOMAIN pdfContents THEN "spawned" ELSE docPc[x]]
            /\ viewPc' = [viewPc EXCEPT ![v] = "running"]
            /\ UNCHANGED <<viewRet, files, csv>>
    /\ UNCHANGED <<docRet, mainPc, mainRet>>
    /\ UNCHANGED <<pmVars, aggVars, cfgVars, storeVars, jsonVars, callVars>>

\* reviewSingleCandidate, lines 93-99: ParMapRange starts a goroutine per
\* repeat, each about to run reviewCandidateOnce.
DocBegin(v, d) ==
    /\ docPc[<<v, d>>] = "spawned"
    /\ docPc' = [docPc EXCEPT ![<<v, d>>] = "running"]
    /\ pc' = [u \in AllUnits |-> IF u \in UnitsOf(v, d) THEN "call" ELSE pc[u]]
    /\ msgs' = [u \in AllUnits |->
           IF u \in UnitsOf(v, d) THEN BuildInputMessages(Request(u)) ELSE msgs[u]]
    /\ UNCHANGED <<fb, tries, outcome, limiter, cache, hist>>
    /\ UNCHANGED <<docRet, viewPc, viewRet, mainPc, mainRet, files, csv>>
    /\ UNCHANGED <<pmVars, aggVars, cfgVars, storeVars, jsonVars>>

\* reviewSingleCandidate, lines 100-121: every repeat has returned; the join
\* of ParMapRange, then the aggregation.
DocJoin(v, d) ==
    /\ docPc[<<v, d>>] = "running"
    /\ RepeatsJoined(v, d)
    /\ LET rs == [i \in 1..numRepeats |->
                    IF outcome[<<v, d, i - 1>>].answers = Nil THEN NilAnswers
                    ELSE outcome[<<v, d, i - 1>>].answers[1]]
           es == [i \in 1..numRepeats |-> ErrSlot(outcome[<<v, d, i - 1>>].err)]
           joined == ParMapReturn(rs, es)
       IN  docRet' = [docRet EXCEPT ![<<v, d>>] = ReviewSingleCandidateReturn(joined, numRepeats)]
    /\ docPc' = [docPc EXCEPT ![<<v, d>>] = "done"]
    /\ UNCHANGED <<viewPc, viewRet, mainPc, mainRet, files, csv>>
    /\ UNCHANGED <<pmVars, aggVars, cfgVars, storeVars, jsonVars, callVars>>

\* execute, lines 69-88, and runView, lines 123-165: every document has
\* returned; the join of ParMapRange, the return of ReviewCandidates and
\* the rest of runView.
ViewJoin(v) ==
    /\ viewPc[v] = "running"
    /\ DocsJoined(v)
    /\ LET rs == [d \in DOMAIN pdfContents |->
                    IF docRet[<<v, d>>].res = Nil THEN NilMap ELSE docRet[<<v, d>>].res[1]]
           es == [d \in DOMAIN pdfContents |-> ErrSlot(docRet[<<v, d>>].err)]
           joined == ParMapReturn(rs, es)
       IN  RunViewReturn(v, joined)
    /\ viewPc' = [viewPc EXCEPT ![v] = "done"]
    /\ UNCHANGED <<docPc, docRet, mainPc, mainRet>>
    /\ UNCHANGED <<pmVars, aggVars, cfgVars, storeVars, jsonVars, callVars>>

\* main, lines 97-104: every view has returned; the join of ParMapDo.
MainJoin ==
    /\ mainPc = "wait"
    /\ ViewsJoined
    /\ LET rs == [v \in DOMAIN views |-> 0]
           es == [v \in DOMAIN views |-> ErrSlot(viewRet[v].err)]
       IN  mainRet' = [err |-> ParMapReturn(rs, es).err]
    /\ mainPc' = "done"
    /\ UNCHANGED <<docPc, docRet, viewPc, viewRet, files, csv>>
    /\ UNCHANGED <<pmVars, aggVars, cfgVars, storeVars, jsonVars, callVars>>

(***************************************************************************)
(* storage/cv_manager.go: the file CV store. A string is a sequence of     *)
(* pieces: a byte that is not valid UTF-8, the replacement rune, the path  *)
(* separator, "<", or a run of other characters.                           *)
(***************************************************************************)
InvalidByte == "0xFF"

\* var ErrCVNotFound, line 11.
ErrCVNotFound == <<"could not find cv">>

\* The ids the store is called with: two plain names, and "./a".
IDs == {<<"a">>, <<"b">>, <<".", "/", "a">>}

\* datamodels.CV: the CVs handed to StoreCV; the text is one of plain
\* characters or one holding a byte that is not valid UTF-8.
CVs ==
    {[UUID |-> id, FileName |-> <<"<", "cv>.pdf">>, Text |-> t,
      RawPDF |-> <<"JVBERi0=">>, Group |-> <<"Main group">>] :
        id \in IDs, t \in {<<"text">>, <<"te", InvalidByte, "xt">>}}

\* encoding/json, a string value: "<" is written as an escape, a byte that
\* is not valid UTF-8 as the escape of the replacement rune.
Escape(p) ==
    CASE p = "<" -> "\\u003c"
      [] p = InvalidByte -> "\\ufffd"
      [] OTHER -> p

\* encoding/json, reading a string value: an escape is the rune it names,
\* a byte that is not valid UTF-8 becomes the replacement rune U+FFFD.
Unescape(p) ==
    CASE p = "\\u003c" -> "<"
      [] p = "\\ufffd" -> "U+FFFD"
      [] p = InvalidByte -> "U+FFFD"
      [] OTHER -> p

Quote(str) == [i \in 1..Len(str) |-> Escape(str[i])]
Unquote(tok) == [i \in 1..Len(tok) |-> Unescape(tok[i])]

\* StoreCV, lines 95-96: json.MarshalIndent(CVDTO(cv)): the object's
\* members under the names of the struct tags.
MarshalIndent(cv) ==
    [uuid |-> Quote(cv.UUID), file_name |-> Quote(cv.FileName),
     text |-> Quote(cv.Text), raw_pdf |-> Quote(cv.RawPDF),
     group |-> Quote(cv.Group)]

\* GetCV, lines 86-90: json.Unmarshal into a CVDTO, converted to a CV.
UnmarshalCV(obj) ==
    [UUID |-> Unquote(obj.uuid), FileName |-> Unquote(obj.file_name),
     Text |-> Unquote(obj.text), RawPDF |-> Unquote(obj.raw_pdf),
     Group |-> Unquote(obj.group)]

\* strings.Split(path, "/"): the elements of a path.
RECURSIVE Elements(_)
Elements(path) ==
    IF \A i \in 1..Len(path) : path[i] # "/"
    THEN <<path>>
    ELSE LET i == CHOOSE j \in 1..Len(path) :
                      /\ path[j] = "/"
                      /\ \A k \in 1..(j - 1) : path[k] # "/"
         IN  <<SubSeq(path, 1, i - 1)>> \o Elements(SubSeq(path, i + 1, Len(path)))

\* filepath.Clean on the elements of a relative path: "." and empty
\* elements are dropped.
RECURSIVE Clean(_)
Clean(elems) ==
    IF elems = <<>> THEN <<>>
    ELSE IF Head(elems) \in {<<".">>, <<>>} THEN Clean(Tail(elems))
    ELSE <<Head(elems)>> \o Clean(Tail(elems))

\* cvPath, lines 57-59: filepath.Join(cvm.dir, id + ".json"), as the name
\* of the file in cvm.dir.
cvPath(id) ==
    LET elems == Clean(Elements(id \o <<".json">>))
    IN  elems[Len(elems)]

\* os.ReadDir: the directory's entries, sorted by file name.
RECURSIVE ReadDir(_)
ReadDir(d) ==
    IF DOMAIN d = {} THEN <<>>
    ELSE LET rank(name) == CASE name = <<"a", ".json">> -> 1
                             [] name = <<"b", ".json">> -> 2
                             [] OTHER -> 3
             first == CHOOSE n \in DOMAIN d :
                          \A m \in DOMAIN d : rank(n) <= rank(m)
         IN  <<first>> \o ReadDir([n \in DOMAIN d \ {first} |-> d[n]])

\* ListCVIDs, lines 62-74: the names whose filepath.Ext is .json, without
\* the ending.
RECURSIVE IDsOf(_)
IDsOf(names) ==
    IF names = <<>> THEN <<>>
    ELSE IF Head(names) # <<>> /\ Head(names)[Len(Head(names))] = ".json"
    THEN <<SubSeq(Head(names), 1, Len(Head(names)) - 1)>> \o IDsOf(Tail(names))
    ELSE IDsOf(Tail(names))

\* What an operation of the store returned.
NoCall == [op |-> "none", id |-> Nil, cv |-> Nil, ids |-> Nil, cvs |-> Nil, err |-> Nil]

\* The store's variables while the store is not modelled: an empty folder.
StoreIdle ==
    /\ dir = [n \in {} |-> Nil]
    /\ stored = [id \in IDs |-> Nil]
    /\ cvRet = NoCall

\* The configuration codec's variables while it is not modelled.
JsonIdle ==
    /\ jsonPc = "idle"
    /\ data = Nil
    /\ checklistItem = Nil
    /\ encoded = Nil
    /\ decoded = Nil

\* The fan-out executor's variables while a run is modelled.
PMIdle ==
    /\ inputs = <<>>
    /\ results = <<>>
    /\ errs = <<>>
    /\ wg = 0
    /\ pmPc = "idle"
    /\ pmIdx = 1
    /\ goroutine = <<>>
    /\ order = <<>>
    /\ ret = [results |-> Nil, err |-> Nil]

\* reviewSingleCandidate's own variables while it is not modelled on its own.
AggIdle ==
    /\ resultsPerRepeat = <<>>
    /\ probs = NilMap
    /\ aggPc = "idle"

\* The state of a run before main starts the views.
RunStart ==
    /\ pc = [u \in AllUnits |-> "idle"]
    /\ msgs = [u \in AllUnits |-> [prompt |-> <<>>, turns |-> <<>>]]
    /\ fb = [u \in AllUnits |-> 0]
    /\ tries = [u \in AllUnits |-> 0]
    /\ outcome = [u \in AllUnits |-> NoOutcome]
    /\ limiter = 0
    /\ hist = [u \in AllUnits |-> NoHist]
    /\ docPc = [x \in AllReviews |-> "idle"]
    /\ docRet = [x \in AllReviews |-> [res |-> Nil, err |-> Nil]]
    /\ viewPc = [v \in AllViews |-> "idle"]
    /\ viewRet = [v \in AllViews |-> [err |-> Nil, result |-> Nil]]
    /\ mainRet = [err |-> Nil]
    /\ files = [v \in AllViews |-> Nil]
    /\ csv = [v \in AllViews |-> Nil]

\* The calls a run with these inputs makes.
Calls == {u \in AllUnits :
            /\ u[1] \in DOMAIN views
            /\ views[u[1]] # {}
            /\ u[2] \in DOMAIN pdfContents
            /\ u[3] < numRepeats}

\* A run of main on a cold cache: each call's transport is up or down.
Init ==
    /\ PMIdle
    /\ AggIdle
    /\ numRepeats \in 0..MaxRepeats
    /\ maxConcurrency \in 1..MaxC
    /\ \E nv \in 1..MaxViews : views \in [1..nv -> OneChecklists]
    /\ \E nd \in 0..MaxDocs : pdfContents \in [1..nd -> Texts]
    /\ \A d \in DOMAIN pdfContents : d = 1 => pdfContents[d] = Cv1
    /\ Len(views) * Len(pdfContents) * numRepeats <= MaxUnits
    /\ \E down \in SUBSET Calls :
         /\ Cardinality(down) <= MaxDown
         /\ env = [u \in AllUnits |-> IF u \in down THEN "down" ELSE "up"]
    /\ cache = [k \in {} |-> NilAnswers]
    /\ DefaultConfig
    /\ RunStart
    /\ mainPc = "start"
    /\ prev = Nil
    /\ StoreIdle
    /\ JsonIdle

\* A run of one view over its documents, each reviewed numRepeats times.
InitDocs ==
    /\ Init
    /\ Len(views) = 1
    /\ views[1] # {}
    /\ Len(pdfContents) >= 1

\* A run of every view the bounds allow over at most one document.
InitViews ==
    /\ Init
    /\ Len(views) = MaxViews
    /\ Len(pdfContents) <= 1

\* The weights a checklist item may have.
Weights == {0, 1, 2}

\* The paths of the documents: two directories hold a file of the same name.
Paths == {[dir |-> 1, base |-> 1], [dir |-> 2, base |-> 1], [dir |-> 1, base |-> 2]}

\* The results reviewSingleCandidate may return for a checklist after two
\* repeats: a probability for every key, and perhaps for a key nobody asked
\* about that every repeat answered true.
ResultsFor(checklist) ==
    LET P == {[probability |-> [num |-> n, den |-> 2]] : n \in 0..2}
    IN  [Keys(checklist) -> P] \cup
        {f @@ (ExtraKey :> [probability |-> [num |-> 2, den |-> 2]]) :
            f \in [Keys(checklist) -> P]}

\* runView of one view right after ReviewCandidates returned a result for
\* every document, with any weights and any paths.
InitReport ==
    /\ PMIdle
    /\ AggIdle
    /\ numRepeats = 2
    /\ maxConcurrency = 1
    /\ views = <<{Item1, Item2}>>
    /\ \E nd \in 1..MaxDocs :
         /\ pdfContents = [d \in 1..nd |-> Cv1]
         /\ pdfNames \in {f \in [1..nd -> Paths] : \A i \in 1..nd, j \in 1..nd : i # j => f[i] # f[j]}
    /\ weights \in [1..1 -> [Keys(views[1]) -> Weights]]
    /\ env = [u \in AllUnits |-> "up"]
    /\ cache = [k \in {} |-> NilAnswers]
    /\ pc = [u \in AllUnits |-> "idle"]
    /\ msgs = [u \in AllUnits |-> [prompt |-> <<>>, turns |-> <<>>]]
    /\ fb = [u \in AllUnits |-> 0]
    /\ tries = [u \in AllUnits |-> 0]
    /\ outcome = [u \in AllUnits |-> NoOutcome]
    /\ limiter = 0
    /\ hist = [u \in AllUnits |-> NoHist]
    /\ docPc = [x \in AllReviews |-> "idle"]
    /\ docRet = [x \in AllReviews |-> [res |-> Nil, err |-> Nil]]
    /\ viewPc = [v \in AllViews |-> IF v = 1 THEN "reviewed" ELSE "idle"]
    /\ \E result \in [DOMAIN pdfContents -> ResultsFor(views[1])] :
         viewRet = [v \in AllViews |->
                      [err |-> Nil, result |-> IF v = 1 THEN Some(result) ELSE Nil]]
    /\ mainRet = [err |-> Nil]
    /\ files = [v \in AllViews |-> Nil]
    /\ csv = [v \in AllViews |-> Nil]
    /\ mainPc = "idle"
    /\ prev = Nil
    /\ StoreIdle
    /\ JsonIdle

\* runView, lines 127-165: the reports of the result, sorted and written.
RunViewReport(v) ==
    /\ viewPc[v] = "reviewed"
    /\ RunViewReturn(v, [results |-> viewRet[v].result, err |-> Nil])
    /\ viewPc' = [viewPc EXCEPT ![v] = "done"]
    /\ UNCHANGED <<docPc, docRet, mainPc, mainRet>>
    /\ UNCHANGED <<pmVars, aggVars, cfgVars, storeVars, jsonVars, callVars>>

\* Questions and resumes whose text holds a line break and the template's
\* own "Resume:" heading.
PromptQuestions == {<<"q1">>, <<"q1", "<nl>", "Resume:", "cv1">>}
PromptChecklists ==
    {{[key |-> "k1", question |-> q]} : q \in PromptQuestions} \cup {{Item1, Item2}}
PromptTexts == {Cv1, Cv2, <<"cv1", "<nl>", "Resume:", "cv2">>}

\* A run of every view over every document the bounds allow, with such
\* texts, up to the prompts of its calls.
InitPrompt ==
    /\ PMIdle
    /\ AggIdle
    /\ numRepeats = MaxRepeats
    /\ maxConcurrency = 1
    /\ views \in [1..MaxViews -> PromptChecklists]
    /\ pdfContents \in [1..MaxDocs -> PromptTexts]
    /\ env = [u \in AllUnits |-> "up"]
    /\ cache = [k \in {} |-> NilAnswers]
    /\ DefaultConfig
    /\ RunStart
    /\ mainPc = "start"
    /\ prev = Nil
    /\ StoreIdle
    /\ JsonIdle

NextPrompt ==
    \/ MainStart
    \/ \E v \in AllViews : ViewBegin(v)
    \/ \E v \in AllViews, d \in AllDocs : DocBegin(v, d)

SpecPrompt == InitPrompt /\ [][NextPrompt]_vars

SpecReport == InitReport /\ [][\E v \in AllViews : RunViewReport(v)]_vars


\* One call through the whole stack against a transport that may answer
\* anything at every attempt, on a cold cache or on one that holds a
\* response for the call's prompt.
InitCall ==
    /\ PMIdle
    /\ AggIdle
    /\ numRepeats = 1
    /\ maxConcurrency = 1
    /\ views \in [1..1 -> RunChecklists \ {{}}]
    /\ pdfContents = <<Cv1>>
    /\ env = [u \in AllUnits |-> IF u = <<1, 1, 0>> THEN "flaky" ELSE "up"]
    /\ \/ cache = [k \in {} |-> NilAnswers]
       \/ \E o \in TransportOutcomes(<<1, 1, 0>>) :
            /\ o.kind = "response"
            /\ cache = (CacheKey(BuildInputMessages(Request(<<1, 1, 0>>))) :> o.body)
    /\ DefaultConfig
    /\ RunStart
    /\ mainPc = "start"
    /\ prev = Nil
    /\ StoreIdle
    /\ JsonIdle

Next ==
    \/ MainStart
    \/ \E v \in AllViews : ViewBegin(v)
    \/ \E x \in AllReviews : DocBegin(x[1], x[2])
    \/ \E u \in AllUnits : CachedRespond(u)
    \/ \E u \in AllUnits : Acquire(u)
    \/ \E u \in AllUnits : TransportRespond(u)
    \/ \E u \in AllUnits : Wake(u)
    \/ \E x \in AllReviews : DocJoin(x[1], x[2])
    \/ \E v \in AllViews : ViewJoin(v)
    \/ MainJoin

Spec == Init /\ [][Next]_vars

SpecCall == InitCall /\ [][Next]_vars

SpecDocs == InitDocs /\ [][Next]_vars

SpecViews == InitViews /\ [][Next]_vars

\* A run of one view over its documents, or of every view with at most one
\* repeat, under fair scheduling: some goroutine that can take a step does,
\* the transport answers every attempt and every delay ends.
InitFair == InitDocs \/ (InitViews /\ numRepeats <= 1)
SpecFair == InitFair /\ [][Next]_vars /\ WF_vars(Next)

\* The program is run again with the same flags, configuration and
\* documents: main builds a new model builder (NewModelBuilder) whose cache
\* is the one the previous run left in ./cache.gob.
Restart ==
    /\ mainPc = "done"
    /\ prev = Nil
    /\ prev' = Some([docRet |-> docRet, err |-> mainRet.err])
    /\ pc' = [u \in AllUnits |-> "idle"]
    /\ msgs' = [u \in AllUnits |-> [prompt |-> <<>>, turns |-> <<>>]]
    /\ fb' = [u \in AllUnits |-> 0]
    /\ tries' = [u \in AllUnits |-> 0]
    /\ outcome' = [u \in AllUnits |-> NoOutcome]
    /\ limiter' = 0
    /\ hist' = [u \in AllUnits |-> NoHist]
    /\ docPc' = [x \in AllReviews |-> "idle"]
    /\ docRet' = [x \in AllReviews |-> [res |-> Nil, err |-> Nil]]
    /\ viewPc' = [v \in AllViews |-> "idle"]
    /\ viewRet' = [v \in AllViews |-> [err |-> Nil, result |-> Nil]]
    /\ mainRet' = [err |-> Nil]
    /\ files' = [v \in AllViews |-> Nil]
    /\ csv' = [v \in AllViews |-> Nil]
    /\ mainPc' = "start"
    /\ UNCHANGED cache
    /\ UNCHANGED <<numRepeats, maxConcurrency, views, pdfContents, pdfNames, weights, env>>
    /\ UNCHANGED <<pmVars, aggVars, storeVars, jsonVars>>

NextRerun == Next \/ Restart

\* A run of one view over its documents, and a second run after it.
SpecRerun == InitDocs /\ [][NextRerun]_vars

\* ParMap alone, on every input sequence of the bounds; no run is going on.
InitParMap ==
    /\ PMInit
    /\ AggIdle
    /\ numRepeats = 0
    /\ maxConcurrency = 1
    /\ views = <<>>
    /\ pdfContents = <<>>
    /\ env = [u \in AllUnits |-> "up"]
    /\ cache = [k \in {} |-> NilAnswers]
    /\ DefaultConfig
    /\ RunStart
    /\ mainPc = "idle"
    /\ prev = Nil
    /\ StoreIdle
    /\ JsonIdle

SpecParMap == InitParMap /\ [][PMNext]_vars

\* The answers a repeat can return for a checklist: every key of the
\* checklist answered, and possibly a key nobody asked about.
Judgments(checklist) ==
    AnswersOver(Keys(checklist)) \cup AnswersOver(Keys(checklist) \cup {ExtraKey})

\* reviewSingleCandidate on its own, after the join of its repeats, for
\* every combination of successful repeats of the bounds.
InitAggregate ==
    /\ PMIdle
    /\ numRepeats \in 0..MaxAggRepeats
    /\ maxConcurrency = 1
    /\ views \in [1..1 -> RunChecklists \ {{}}]
    /\ pdfContents = <<Cv1>>
    /\ env = [u \in AllUnits |-> "up"]
    /\ cache = [k \in {} |-> NilAnswers]
    /\ DefaultConfig
    /\ RunStart
    /\ mainPc = "idle"
    /\ prev = Nil
    /\ StoreIdle
    /\ JsonIdle
    /\ resultsPerRepeat \in [1..numRepeats -> Judgments(views[1])]
    /\ probs = NilMap
    /\ aggPc = "joined"

\* reviewSingleCandidate, lines 103-121: aggregate and return.
AggregateResults ==
    /\ aggPc = "joined"
    /\ probs' = Aggregate(resultsPerRepeat, numRepeats)
    /\ aggPc' = "returned"
    /\ UNCHANGED <<resultsPerRepeat, pmVars, cfgVars, storeVars, jsonVars, callVars, runVars>>

SpecAggregate == InitAggregate /\ [][AggregateResults]_vars

\* No run of main is going on: the state the store and the configuration
\* codec are modelled in.
NoRun ==
    /\ PMIdle
    /\ AggIdle
    /\ numRepeats = 0
    /\ maxConcurrency = 1
    /\ views = <<>>
    /\ pdfContents = <<>>
    /\ env = [u \in AllUnits |-> "up"]
    /\ cache = [k \in {} |-> NilAnswers]
    /\ DefaultConfig
    /\ RunStart
    /\ mainPc = "idle"
    /\ prev = Nil

\* StoreCV, lines 94-101: encode the CV and write the file of its UUID.
StoreCV(cv) ==
    /\ dir' = (cvPath(cv.UUID) :> MarshalIndent(cv)) @@ dir
    /\ stored' = [stored EXCEPT ![cv.UUID] = Some(cv)]
    /\ cvRet' = [NoCall EXCEPT !.op = "StoreCV", !.id = Some(cv.UUID)]
    /\ UNCHANGED <<pmVars, aggVars, cfgVars, callVars, runVars, jsonVars>>

\* GetCV, lines 77-91: read and decode the file of the id; datamodels.CV{}
\* and ErrCVNotFound if there is none.
GetCV(id) ==
    /\ IF cvPath(id) \in DOMAIN dir
       THEN cvRet' = [NoCall EXCEPT !.op = "GetCV", !.id = Some(id),
                                   !.cv = Some(UnmarshalCV(dir[cvPath(id)]))]
       ELSE cvRet' = [NoCall EXCEPT !.op = "GetCV", !.id = Some(id),
                                   !.cv = Some([UUID |-> <<>>, FileName |-> <<>>,
                                                Text |-> <<>>, RawPDF |-> <<>>,
                                                Group |-> <<>>]),
                                   !.err = Some(ErrCVNotFound)]
    /\ UNCHANGED <<dir, stored>>
    /\ UNCHANGED <<pmVars, aggVars, cfgVars, callVars, runVars, jsonVars>>

\* DeleteCV, lines 104-113: remove the file of the id.
DeleteCV(id) ==
    /\ IF cvPath(id) \in DOMAIN dir
       THEN /\ dir' = [n \in DOMAIN dir \ {cvPath(id)} |-> dir[n]]
            /\ cvRet' = [NoCall EXCEPT !.op = "DeleteCV", !.id = Some(id)]
       ELSE /\ dir' = dir
            /\ cvRet' = [NoCall EXCEPT !.op = "DeleteCV", !.id = Some(id),
                                      !.err = Some(ErrCVNotFound)]
    /\ stored' = [stored EXCEPT ![id] = Nil]
    /\ UNCHANGED <<pmVars, aggVars, cfgVars, callVars, runVars, jsonVars>>

\* ListCVIDs, lines 62-74.
ListCVIDs ==
    /\ cvRet' = [NoCall EXCEPT !.op = "ListCVIDs", !.ids = Some(IDsOf(ReadDir(dir)))]
    /\ UNCHANGED <<dir, stored>>
    /\ UNCHANGED <<pmVars, aggVars, cfgVars, callVars, runVars, jsonVars>>

\* ListCVs, lines 115-117, and listCVs, lines 31-43: GetCV of every listed id.
ListCVs ==
    /\ LET ids == IDsOf(ReadDir(dir))
       IN  cvRet' = [NoCall EXCEPT !.op = "ListCVs",
                        !.cvs = Some([i \in 1..Len(ids) |-> UnmarshalCV(dir[cvPath(ids[i])])])]
    /\ UNCHANGED <<dir, stored>>
    /\ UNCHANGED <<pmVars, aggVars, cfgVars, callVars, runVars, jsonVars>>

NextCVStore ==
    \/ \E cv \in CVs : StoreCV(cv)
    \/ \E id \in IDs : GetCV(id)
    \/ \E id \in IDs : DeleteCV(id)
    \/ ListCVIDs
    \/ ListCVs

\* NewFileCVManager on a folder that does not exist yet.
InitCVStore ==
    /\ NoRun
    /\ StoreIdle
    /\ JsonIdle

\* The file CV store under every sequence of its operations.
SpecCVStore == InitCVStore /\ [][NextCVStore]_vars

(***************************************************************************)
(* part_005: ConfigScoreChecklistItem and its JSON form. A float64 is kept *)
(* as the exact fraction num / den, a JSON number as its text.             *)
(***************************************************************************)
Float(n) == [num |-> n, den |-> 1]

\* The JSON objects LoadConfig may find for a checklist item: every member
\* is optional; a question is plain, has "<" written as an escape or as
\* itself, or holds a byte that is not valid UTF-8; a weight is a number.
ItemObjects ==
    {[question |-> q, weight |-> w, important |-> i] :
        q \in {Nil, Some(<<"q1">>), Some(<<"\\u003c", "q2">>), Some(<<"<", "q2">>),
               Some(<<InvalidByte, "q3">>)},
        w \in {Nil, Some("0"), Some("0.0"), Some("1"), Some("1.0"), Some("2"), Some("0.5")},
        i \in {Nil, Some(TRUE), Some(FALSE)}}

\* encoding/json, reading a number into a float64: strconv.ParseFloat.
ParseFloat(tok) ==
    CASE tok \in {"0", "0.0"} -> Float(0)
      [] tok \in {"1", "1.0"} -> Float(1)
      [] tok = "2" -> Float(2)
      [] tok = "0.5" -> [num |-> 1, den |-> 2]

\* encoding/json, writing a float64: the shortest text that reads back as
\* the same value.
EncodeFloat(x) ==
    CASE x = Float(0) -> "0"
      [] x = Float(1) -> "1"
      [] x = Float(2) -> "2"
      [] x = [num |-> 1, den |-> 2] -> "0.5"

\* UnmarshalJSON, lines 21-35: decode the DTO; a weight that is absent is 1.
UnmarshalJSON(obj) ==
    [Question |-> IF obj.question = Nil THEN <<>> ELSE Unquote(obj.question[1]),
     Weight |-> IF obj.weight = Nil THEN Float(DefaultWeight) ELSE ParseFloat(obj.weight[1]),
     Important |-> IF obj.important = Nil THEN FALSE ELSE obj.important[1]]

\* MarshalJSON, lines 38-41: the DTO's weight pointer, nil for the weight 1.
WeightPointerNilForZero(x) == IF x # Float(0) THEN Some(x) ELSE Nil
WeightPointer(x) == IF x # Float(1) THEN Some(x) ELSE Nil

\* MarshalJSON, lines 37-48: encode the DTO; omitempty leaves out a nil
\* weight and a false important.
MarshalJSON(c) ==
    [question |-> Some(Quote(c.Question)),
     weight |-> IF WeightPointer(c.Weight) = Nil THEN Nil
                ELSE Some(EncodeFloat(WeightPointer(c.Weight)[1])),
     important |-> IF c.Important THEN Some(TRUE) ELSE Nil]

\* LoadConfig has read config.json: a checklist item's object is to be decoded.
InitConfig ==
    /\ NoRun
    /\ StoreIdle
    /\ jsonPc = "read"
    /\ data \in {Some(o) : o \in ItemObjects}
    /\ checklistItem = Nil
    /\ encoded = Nil
    /\ decoded = Nil

\* LoadConfig, line 66: the decoder calls UnmarshalJSON on the item's object.
LoadItem ==
    /\ jsonPc = "read"
    /\ checklistItem' = Some(UnmarshalJSON(data[1]))
    /\ jsonPc' = "loaded"
    /\ UNCHANGED <<data, encoded, decoded>>
    /\ UNCHANGED <<pmVars, aggVars, cfgVars, callVars, runVars, storeVars>>

\* The item is encoded again.
EncodeItem ==
    /\ jsonPc = "loaded"
    /\ encoded' = Some(MarshalJSON(checklistItem[1]))
    /\ jsonPc' = "encoded"
    /\ UNCHANGED <<data, checklistItem, decoded>>
    /\ UNCHANGED <<pmVars, aggVars, cfgVars, callVars, runVars, storeVars>>

\* What was encoded is decoded.
ReloadItem ==
    /\ jsonPc = "encoded"
    /\ decoded' = Some(UnmarshalJSON(encoded[1]))
    /\ jsonPc' = "reloaded"
    /\ UNCHANGED <<data, checklistItem, encoded>>
    /\ UNCHANGED <<pmVars, aggVars, cfgVars, callVars, runVars, storeVars>>

\* The decoding of every checklist item of the bounds, and its round trip.
SpecConfig == InitConfig /\ [][LoadItem \/ EncodeItem \/ ReloadItem]_vars

(***************************************************************************)
(* Claims about the fan-out executor, checked under SpecParMap.            *)
(***************************************************************************)
Returned == pmPc = "done"
Failed == {i \in DOMAIN inputs : goroutine[i] = "failed"}
Completed == {i \in DOMAIN inputs : goroutine[i] \in {"succeeded", "failed"}}

\* C1: when every unit succeeds, ParMap (and ParMapRange) returns a result
\* sequence as long as the inputs whose element i is the value fn produced
\* for input i, whatever the order in which the units completed.
C1_ResultsIndexAligned ==
    (Returned /\ Failed = {}) =>
        /\ ret.err = Nil
        /\ ret.results # Nil
        /\ Len(ret.results[1]) = Len(inputs)
        /\ \A i \in DOMAIN inputs : ret.results[1][i] = Fn(inputs[i])

\* Witness of C1: ParMapRange(3) has returned [0, 1, 4] although the units
\* completed in the order 3, 1, 2.
C1_Witness ==
    /\ Returned
    /\ inputs = ParMapRange(3)
    /\ Failed = {}
    /\ order = <<3, 1, 2>>
    /\ ret.results = Some(<<0, 1, 4>>)

\* C2: ParMap is a full join: it returns only after every one of the N units
\* was started and has completed, and a unit that failed neither stops the
\* loop from starting the remaining units nor stops a started sibling from
\* running.
C2_FullJoin ==
    /\ Returned => Completed = DOMAIN inputs
    /\ pmPc = "loop" => ENABLED Spawn
    /\ \A i \in DOMAIN inputs : goroutine[i] = "spawned" => ENABLED RunUnit(i)

\* Witness of C2: the first unit to complete failed, and all three units had
\* completed when ParMap returned.
C2_Witness ==
    /\ Returned
    /\ Len(inputs) = 3
    /\ Len(order) = 3
    /\ goroutine[order[1]] = "failed"
    /\ goroutine[order[3]] = "succeeded"

\* C3: with k >= 1 failed units ParMap returns no result list and an
\* aggregate error that holds exactly the k individual errors; with k = 0 it
\* returns the full result list and a nil error.
C3_AllErrorsJoined ==
    Returned =>
        IF Failed # {}
        THEN /\ ret.results = Nil
             /\ ret.err # Nil
             /\ Len(Joined(ret.err[1])) = Cardinality(Failed)
             /\ \A i \in Failed :
                  \E j \in DOMAIN Joined(ret.err[1]) :
                      Joined(ret.err[1])[j] = FnErr(inputs[i])
        ELSE /\ ret.err = Nil
             /\ ret.results = Some(results)

\* Witness of C3: two of three units failed with distinct errors and both
\* errors are in the aggregate error.
C3_Witness ==
    /\ Returned
    /\ inputs = <<0, 1, 2>>
    /\ Failed = {1, 3}
    /\ ret.results = Nil
    /\ ret.err = Some(Join(<<FnErr(0), FnErr(2)>>))

(***************************************************************************)
(* Claims about the consensus aggregation, checked under SpecAggregate.    *)
(***************************************************************************)
\* The number of repeats that answered true for key k.
TrueCount(k) == Cardinality({i \in DOMAIN resultsPerRepeat : k \in resultsPerRepeat[i].yes})
Aggregated == aggPc = "returned" /\ numRepeats >= 1
Min(a, b) == IF a < b THEN a ELSE b

\* C6: for every R >= 1 and every combination of R successful repeats, the
\* probability reported for each checklist key is the number of repeats
\* that answered true for it, divided by R.
C6_ProbabilityIsTrueShare ==
    Aggregated =>
        \A k \in Keys(views[1]) :
            /\ k \in DOMAIN probs
            /\ probs[k].probability.den # 0
            /\ RatEq(probs[k].probability, [num |-> TrueCount(k), den |-> numRepeats])

\* Witness of C6: three repeats, two of them answered true for k1, and the
\* probability of k1 is 2/3.
C6_Witness ==
    /\ Aggregated
    /\ numRepeats = 3
    /\ TrueCount("k1") = 2
    /\ RatEq(probs["k1"].probability, [num |-> 2, den |-> 3])

\* C7: the inconsistency of a checklist key is 2 * min(p, 1 - p): 0 (with
\* probability 1 or 0) when the repeats are unanimous, 1 (with probability
\* 1/2) when they split evenly, and never more than 1.
C7_Inconsistency ==
    Aggregated =>
        \A k \in Keys(views[1]) :
            LET t == TrueCount(k)
                inc == Inconsistency(probs[k])
            IN  /\ RatEq(inc, [num |-> 2 * Min(t, numRepeats - t), den |-> numRepeats])
                /\ t = numRepeats =>
                     RatEq(probs[k].probability, One) /\ inc.num = 0
                /\ t = 0 => probs[k].probability.num = 0 /\ inc.num = 0
                /\ 2 * t = numRepeats =>
                     RatEq(probs[k].probability, Half) /\ RatEq(inc, One)
                /\ RatGE(One, inc)

\* Witness of C7: four repeats split two against two on k1, and the
\* inconsistency of k1 is 1.
C7_Witness ==
    /\ Aggregated
    /\ numRepeats = 4
    /\ TrueCount("k1") = 2
    /\ RatEq(Inconsistency(probs["k1"]), One)

\* C8: IsTrue holds exactly when strictly more than half of the repeats
\* answered true; on an even split it is false.
C8_IsTrueStrictMajority ==
    Aggregated =>
        \A k \in Keys(views[1]) :
            /\ IsTrue(probs[k]) <=> 2 * TrueCount(k) > numRepeats
            /\ 2 * TrueCount(k) = numRepeats => ~IsTrue(probs[k])

\* Witness of C8: two repeats split one against one on k1, the probability
\* is 1/2 and IsTrue is false.
C8_Witness ==
    /\ Aggregated
    /\ numRepeats = 2
    /\ TrueCount("k1") = 1
    /\ RatEq(probs["k1"].probability, Half)
    /\ ~IsTrue(probs["k1"])

(***************************************************************************)
(* Claims about the model stack, checked under Spec (a whole run) and      *)
(* SpecCall (one call against a transport that may answer anything).       *)
(***************************************************************************)
\* The calls that are inside the concurrency limiter: in a transport
\* attempt or in the delay between two attempts.
InFlight == {u \in AllUnits : pc[u] \in {"attempt", "sleep"}}

\* C4: in every reachable state of a run, over all views, documents and
\* repeats, at most maxConcurrency calls are inside the limiter, and the
\* one limiter of the builder counts all of them.
C4_AtMostCInFlight ==
    /\ Cardinality(InFlight) <= maxConcurrency
    /\ limiter = Cardinality(InFlight)

\* Witness of C4: with -c 2, calls of two different views hold the two
\* slots while a third call waits for one.
C4_Witness ==
    /\ maxConcurrency = 2
    /\ Cardinality(InFlight) = 2
    /\ \E u1 \in InFlight, u2 \in InFlight : u1[1] # u2[1]
    /\ \E u3 \in AllUnits : pc[u3] = "acquire"

\* C5: a call of the model stack whose conversation is in the cache returns
\* the cached response without a transport call, without taking a limiter
\* slot and without entering the retry loop; a call that misses goes on to
\* the limiter, and no call reaches the transport without a slot.
C5_CacheHitBypassesLimiter ==
    /\ [][\A u \in AllUnits :
            hist'[u].modelCalls # hist[u].modelCalls =>
                IF CacheKey(msgs[u]) \in DOMAIN cache
                THEN /\ hist'[u].transportCalls = hist[u].transportCalls
                     /\ hist'[u].slotsTaken = hist[u].slotsTaken
                     /\ limiter' = limiter
                     /\ tries'[u] = tries[u]
                     /\ pc'[u] \in {"done", "call"}
                     /\ (pc'[u] = "done" /\ outcome'[u].err = Nil) =>
                            outcome'[u].answers = Some(Answers(cache[CacheKey(msgs[u])]))
                ELSE pc'[u] = "acquire"]_vars
    /\ [](\A u \in AllUnits :
            /\ pc[u] \in {"attempt", "sleep"} => hist[u].slotsTaken >= 1
            /\ hist[u].transportCalls > 0 => hist[u].slotsTaken >= 1
            /\ pc[u] = "done" =>
                 hist[u].modelCalls = hist[u].cacheHits + hist[u].slotsTaken)

\* Witness of C5: a call has returned answers that came from the cache: it
\* made no transport call and took no slot, while another call with the
\* same request went through the limiter to the transport.
C5_Witness ==
    \E u \in AllUnits, w \in AllUnits :
        /\ u # w
        /\ pc[u] = "done" /\ pc[w] = "done"
        /\ hist[u].cacheHits = 1
        /\ hist[u].transportCalls = 0
        /\ hist[u].slotsTaken = 0
        /\ outcome[u].answers # Nil
        /\ outcome[u].answers = outcome[w].answers
        /\ hist[w].slotsTaken = 1
        /\ hist[w].transportCalls = 1

\* C9: a call whose responses failed validation at most three times, and
\* whose transport never failed, has surfaced no error; once it has
\* returned, it has returned a complete judgment, and the document, the
\* view and the run that own it succeed.
C9_RecoversFromInvalidResponses ==
    \A u \in Calls :
        (hist[u].invalidSeen <= 3 /\ hist[u].transportErrs = 0) =>
            /\ outcome[u].err = Nil
            /\ pc[u] = "done" =>
                 /\ outcome[u].answers # Nil
                 /\ Keys(views[u[1]]) \subseteq outcome[u].answers[1].keys
                 /\ docPc[<<u[1], u[2]>>] = "done" =>
                      /\ docRet[<<u[1], u[2]>>].err = Nil
                      /\ docRet[<<u[1], u[2]>>].res # Nil
                 /\ viewPc[u[1]] = "done" => viewRet[u[1]].err = Nil
                 /\ mainPc = "done" => mainRet.err = Nil

\* Witness of C9: the responses of calls 1 to 3 failed validation, the
\* response of call 4 passed, and the run has ended without an error.
C9_Witness ==
    \E u \in Calls :
        /\ pc[u] = "done"
        /\ hist[u].invalidSeen = 3
        /\ hist[u].validSeen = 1
        /\ hist[u].modelCalls = 4
        /\ hist[u].transportCalls = 4
        /\ hist[u].transportErrs = 0
        /\ outcome[u].err = Nil
        /\ mainPc = "done"
        /\ mainRet.err = Nil

\* A call that has returned an error after nothing but invalid responses.
AlwaysInvalid(u) ==
    /\ pc[u] = "done"
    /\ outcome[u].err # Nil
    /\ hist[u].validSeen = 0
    /\ hist[u].transportErrs = 0

Handed(h) == h.validSeen + h.invalidSeen

\* C11: a judgment vector returned by reviewCandidateOnce answers every key
\* of the input checklist; a response handed to the map func that omits a
\* requested key is never returned as the result, neither as it is nor
\* filled up: it is fed back or ends the call with the validation error, and
\* a complete response is returned with exactly its own answers.
C11_JudgmentsAnswerEveryKey ==
    /\ [](\A u \in Calls :
            outcome[u].answers # Nil =>
                /\ outcome[u].err = Nil
                /\ Keys(views[u[1]]) \subseteq outcome[u].answers[1].keys
                /\ outcome[u].answers[1].yes \subseteq outcome[u].answers[1].keys)
    /\ [][\A u \in Calls :
            Handed(hist'[u]) # Handed(hist[u]) =>
                LET r == cache'[CacheKey(msgs[u])]
                IN  IF Keys(views[u[1]]) \subseteq r.keys
                    THEN outcome'[u] = [answers |-> Some([keys |-> r.keys, yes |-> r.yes]),
                                        err |-> Nil]
                    ELSE /\ outcome'[u].answers = Nil
                         /\ pc'[u] = "done" => outcome'[u].err = Some(ErrInvalidResponse)
                         /\ pc'[u] # "done" => outcome'[u].err = Nil]_vars

\* Witness of C11: a response lacking one of two keys was rejected, a later
\* complete one was returned.
C11_Witness ==
    \E u \in Calls :
        /\ pc[u] = "done"
        /\ hist[u].invalidSeen = 1
        /\ hist[u].validSeen = 1
        /\ Cardinality(Keys(views[u[1]])) = 2
        /\ outcome[u].err = Nil
        /\ outcome[u].answers # Nil
        /\ outcome[u].answers[1].keys = Keys(views[u[1]])

\* The repeats of document d of view v that ended in a terminal failure.
FailedRepeats(v, d) ==
    {u \in UnitsOf(v, d) : pc[u] = "done" /\ outcome[u].err # Nil}

\* C12: reviewSingleCandidate returns either an error and no mapping,
\* exactly when one of the repeats failed, or a mapping with a result for
\* every key of the checklist; the answers of the repeats that succeeded are
\* not aggregated beside a failed one.
C12_NoPartialDocumentResult ==
    \A x \in AllReviews :
        docPc[x] = "done" =>
            IF FailedRepeats(x[1], x[2]) # {}
            THEN /\ docRet[x].err # Nil
                 /\ docRet[x].res = Nil
            ELSE /\ docRet[x].err = Nil
                 /\ docRet[x].res # Nil
                 /\ Keys(views[x[1]]) \subseteq DOMAIN docRet[x].res[1]

\* Call u can take its next step, or waits for a slot that a call in
\* flight holds.
CanProceed(u) ==
    \/ ENABLED CachedRespond(u)
    \/ ENABLED Acquire(u)
    \/ ENABLED TransportRespond(u)
    \/ ENABLED Wake(u)
    \/ pc[u] = "acquire" /\ \E w \in InFlight : ENABLED TransportRespond(w) \/ ENABLED Wake(w)

\* C13: a repeat's terminal failure cancels nothing: every document of the
\* view is still dispatched, every repeat that has not returned can still
\* proceed, a document returns (its error too) only after all its repeats
\* have returned, and the view returns only after all its documents have.
C13_FailureCancelsNothing ==
    \A u \in Calls :
        LET x == <<u[1], u[2]>>
        IN  /\ docPc[x] = "spawned" => ENABLED DocBegin(u[1], u[2])
            /\ (docPc[x] = "running" /\ pc[u] # "done") => CanProceed(u)
            /\ docPc[x] = "done" => pc[u] = "done"
            /\ docRet[x].err # Nil => docPc[x] = "done"
            /\ viewPc[u[1]] = "done" => docPc[x] = "done"
            /\ viewRet[u[1]].err # Nil => viewPc[u[1]] = "done"
            /\ mainPc = "done" => pc[u] = "done"

\* Witness of C13: after a repeat's terminal failure, a sibling repeat of
\* the same document is in a transport attempt and a repeat of a sibling
\* document has been dispatched.
C13_Witness ==
    \E u \in Calls, w \in Calls, z \in Calls :
        /\ pc[u] = "done" /\ outcome[u].err # Nil
        /\ w[1] = u[1] /\ w[2] = u[2] /\ w # u
        /\ pc[w] = "attempt"
        /\ z[1] = u[1] /\ z[2] # u[2]
        /\ pc[z] = "call"

\* C14: a failed view stops no other view: every view is started, the calls
\* and joins of a running view can go on, a view that returned no error has
\* written its reports, and the error of a failed view is joined into the
\* error of main only when every view has returned.
C14_ViewsIndependent ==
    /\ \A v \in DOMAIN views :
        /\ viewPc[v] = "spawned" => ENABLED ViewBegin(v)
        /\ (viewPc[v] = "running" /\ DocsJoined(v)) => ENABLED ViewJoin(v)
        /\ (viewPc[v] = "done" /\ viewRet[v].err = Nil) => files[v] # Nil
        /\ mainPc = "done" => viewPc[v] = "done"
        /\ (mainPc = "done" /\ viewRet[v].err # Nil) =>
              /\ mainRet.err # Nil
              /\ \E i \in DOMAIN Joined(mainRet.err[1]) :
                    Joined(mainRet.err[1])[i] = viewRet[v].err[1]
    /\ \A u \in Calls :
        (docPc[<<u[1], u[2]>>] = "running" /\ pc[u] # "done") => CanProceed(u)
    /\ mainRet.err # Nil => mainPc = "done"
    /\ (mainPc = "done" /\ \A v \in DOMAIN views : viewRet[v].err = Nil) => mainRet.err = Nil

\* Witness of C14: main has returned the error of a failed view, and
\* another view has written the report of its document.
C14_Witness ==
    \E v \in DOMAIN views, w \in DOMAIN views :
        /\ mainPc = "done"
        /\ mainRet.err # Nil
        /\ viewRet[v].err # Nil
        /\ files[v] = Nil
        /\ viewRet[w].err = Nil
        /\ files[w] # Nil
        /\ Len(files[w][1]) = 1
        /\ \E u \in Calls : u[1] = w /\ hist[u].transportCalls >= 1

\* No call of view v has been made: no goroutine of a repeat was started
\* and nothing reached the model stack.
NoCallsOf(v) ==
    /\ \A u \in AllUnits : u[1] = v => (pc[u] = "idle" /\ hist[u] = NoHist)
    /\ \A d \in AllDocs : docPc[<<v, d>>] = "idle"

\* C15: without documents ReviewCandidates returns an empty sequence of
\* results and no error, and makes no call, whatever the checklist and the
\* number of repeats; AnswerQuestionsForCandidates returns the same at once.
C15_NoDocuments ==
    Len(pdfContents) = 0 =>
        /\ \A v \in DOMAIN views :
            /\ NoCallsOf(v)
            /\ viewPc[v] = "done" =>
                 viewRet[v] = [err |-> Nil, result |-> Some(<<>>)]
        /\ limiter = 0
        /\ DOMAIN cache = {}
        /\ \A q \in RunChecklists :
             AnswerQuestionsEarly(q, pdfContents) = Some([results |-> Some(<<>>), err |-> Nil])

\* Witness of C15: two views, one with a question and two repeats asked
\* for, have returned without documents.
C15_Witness ==
    /\ Len(pdfContents) = 0
    /\ numRepeats = 2
    /\ Len(views) = 2
    /\ \E v \in DOMAIN views : views[v] # {}
    /\ \A v \in DOMAIN views : viewPc[v] = "done" /\ viewRet[v].result = Some(<<>>)
    /\ mainPc = "done"

\* C16: with an empty checklist and D >= 1 documents ReviewCandidates
\* returns D results, each an empty mapping, and no error, and makes no
\* call; AnswerQuestionsForCandidates returns the same at once.
C16_EmptyChecklist ==
    \A v \in DOMAIN views :
        (views[v] = {} /\ Len(pdfContents) >= 1) =>
            /\ NoCallsOf(v)
            /\ viewPc[v] = "done" =>
                 /\ viewRet[v].err = Nil
                 /\ viewRet[v].result # Nil
                 /\ Len(viewRet[v].result[1]) = Len(pdfContents)
                 /\ \A d \in DOMAIN pdfContents : DOMAIN viewRet[v].result[1][d] = {}
            /\ AnswerQuestionsEarly(views[v], pdfContents) =
                 Some([results |-> Some([d \in DOMAIN pdfContents |-> NilMap]), err |-> Nil])

\* Witness of C16: a view without questions has returned an empty mapping
\* for the document while a view with a question has called the model.
C16_Witness ==
    \E v \in DOMAIN views, w \in DOMAIN views :
        /\ views[v] = {}
        /\ Len(pdfContents) = 1
        /\ numRepeats >= 1
        /\ viewPc[v] = "done"
        /\ viewRet[v].result = Some(<<NilMap>>)
        /\ views[w] # {}
        /\ \E u \in Calls : u[1] = w /\ hist[u].modelCalls >= 1

(***************************************************************************)
(* Claims about the reports of a view, checked under SpecReport.           *)
(***************************************************************************)
\* The rows runView wrote for view v, and the reports it made of the result
\* before sorting them.
Rows(v) == files[v][1]
Unsorted(v) == Reports(v, viewRet[v].result[1])

\* C17 as stated: the rows are in the one total order by descending score
\* and, among equal scores, ascending document identifier: every row comes
\* strictly before the next in it.
C17_UniqueTotalOrder ==
    \A v \in DOMAIN views :
        files[v] # Nil =>
            \A i \in DOMAIN Rows(v), j \in DOMAIN Rows(v) :
                i < j =>
                    \/ Rows(v)[i].FinalScore > Rows(v)[j].FinalScore
                    \/ /\ Rows(v)[i].FinalScore = Rows(v)[j].FinalScore
                       /\ Rows(v)[i].FileName < Rows(v)[j].FileName

\* C17 as amended: the rows are the reports, ordered by descending score
\* and, among equal scores, by ascending identifier; the order is the only
\* such one when no two reports agree in score and identifier, and two
\* reports that do may come in either order.
C17_SortedByScoreThenName ==
    \A v \in DOMAIN views :
        files[v] # Nil =>
            /\ Len(Rows(v)) = Len(Unsorted(v))
            /\ \A i \in DOMAIN Unsorted(v) : \E j \in DOMAIN Rows(v) : Rows(v)[j] = Unsorted(v)[i]
            /\ \A i \in DOMAIN Rows(v), j \in DOMAIN Rows(v) :
                i < j =>
                    \/ Rows(v)[i].FinalScore > Rows(v)[j].FinalScore
                    \/ /\ Rows(v)[i].FinalScore = Rows(v)[j].FinalScore
                       /\ Rows(v)[i].FileName <= Rows(v)[j].FileName
            /\ (\A i \in DOMAIN Unsorted(v), j \in DOMAIN Unsorted(v) :
                    i # j => \/ Unsorted(v)[i].FinalScore # Unsorted(v)[j].FinalScore
                             \/ Unsorted(v)[i].FileName # Unsorted(v)[j].FileName)
                => SortSlice(Unsorted(v)) = {Rows(v)}

\* Witness of C17: two reports of equal score came in descending order of
\* their names and were written in ascending order.
C17_Witness ==
    /\ files[1] # Nil
    /\ Len(Unsorted(1)) = 2
    /\ Unsorted(1)[1].FinalScore = Unsorted(1)[2].FinalScore
    /\ Unsorted(1)[1].FinalScore > 0
    /\ Unsorted(1)[1].FileName > Unsorted(1)[2].FileName
    /\ Rows(1) = <<Unsorted(1)[2], Unsorted(1)[1]>>

RECURSIVE TotalOf(_, _)
TotalOf(w, S) ==
    IF S = {} THEN 0
    ELSE LET k == CHOOSE x \in S : TRUE IN w[k] + TotalOf(w, S \ {k})

\* C18: the final score of every row is the sum of the weights of the keys
\* of the view's checklist whose probability in the row is above one half;
\* the other keys, and keys the view does not have, add nothing.
C18_ScoreIsWeightOfTrueKeys ==
    \A v \in DOMAIN views :
        files[v] # Nil =>
            \A i \in DOMAIN Rows(v) :
                Rows(v)[i].FinalScore =
                    TotalOf(weights[v],
                            {k \in Keys(views[v]) :
                                /\ k \in DOMAIN Rows(v)[i].Checklist
                                /\ 2 * Rows(v)[i].Checklist[k].probability.num
                                     > Rows(v)[i].Checklist[k].probability.den})

\* Witness of C18: a row with one key true, one key at one half and a true
\* answer to a key the view lacks has the weight of the first as its score.
C18_Witness ==
    /\ files[1] # Nil
    /\ weights[1]["k1"] = 2
    /\ weights[1]["k2"] = 1
    /\ \E i \in DOMAIN Rows(1) :
         /\ ExtraKey \in DOMAIN Rows(1)[i].Checklist
         /\ Rows(1)[i].Checklist["k1"].probability.num = 2
         /\ Rows(1)[i].Checklist["k2"].probability.num = 1
         /\ Rows(1)[i].FinalScore = 2

\* C19: when the review of one document of a view fails, the view's report
\* is still written, with a row for each document whose review succeeded
\* and none for the failed one.
C19_FailedDocumentExcluded ==
    \A v \in DOMAIN views :
        (viewPc[v] = "done" /\ \E d \in DOMAIN pdfContents : docRet[<<v, d>>].err # Nil) =>
            /\ files[v] # Nil
            /\ {files[v][1][i].FileLoc : i \in DOMAIN files[v][1]} =
                   {pdfNames[d] : d \in {e \in DOMAIN pdfContents : docRet[<<v, e>>].err = Nil}}

\* C20: a review with repeats = 0 is invalid: for a view with questions and
\* documents ReviewCandidates returns no successful result, and no report
\* is written from zero repeats.
C20_ZeroRepeatsRejected ==
    \A v \in DOMAIN views :
        (numRepeats = 0 /\ views[v] # {} /\ Len(pdfContents) >= 1 /\ viewPc[v] = "done") =>
            /\ viewRet[v].err # Nil
            /\ viewRet[v].result = Nil
            /\ files[v] = Nil

\* C21: the cache fingerprint is an injective function of the request:
\* two calls have the same cache key exactly when they have the same
\* checklist, document text and repeat index.
C21_FingerprintInjective ==
    \A u \in Calls, w \in Calls :
        (pc[u] # "idle" /\ pc[w] # "idle") =>
            ((CacheKey(msgs[u]) = CacheKey(msgs[w])) <=> (Request(u) = Request(w)))

\* C22: a slot taken by a call is given back when the call returns, with a
\* response or with an error: once every call of the run has returned no
\* slot is held, a returned call holds none, and whenever no slot is free
\* some call is still inside the limiter.
C22_SlotsReleased ==
    /\ (\A u \in Calls : pc[u] = "done") => limiter = 0
    /\ \A u \in Calls : pc[u] = "done" => limiter <= Cardinality(InFlight \ {u})
    /\ limiter = maxConcurrency => InFlight # {}

\* Witness of C22: with one slot, every call of the run has returned, two of
\* them took the slot, one of those failed after its last attempt.
C22_Witness ==
    /\ maxConcurrency = 1
    /\ Calls # {}
    /\ \A u \in Calls : pc[u] = "done"
    /\ \E u \in Calls, w \in Calls :
         /\ u # w
         /\ hist[u].slotsTaken = 1 /\ outcome[u].err = Some(ErrRetriesExhausted)
         /\ hist[w].slotsTaken = 1 /\ outcome[w].err = Nil
    /\ limiter = 0

\* The error ParMap returns when exactly the units of F fail.
AggregateOf(F) ==
    Join(DeleteNil([i \in DOMAIN inputs |-> IF i \in F THEN FnErr(inputs[i]) ELSE Nil]))

\* C23: the aggregate error ParMap returns tells which input positions
\* failed: no other set of failed positions gives the same error.
C23_AggregateNamesPositions ==
    (Returned /\ ret.err # Nil) =>
        \A F \in SUBSET DOMAIN inputs : AggregateOf(F) = ret.err[1] => F = Failed

C25_RunTerminates ==
    <>(mainPc = "done" /\ limiter = 0 /\ \A u \in Calls : pc[u] = "done")

\* Witness of C25: main has returned from a run with one slot in which
\* three calls took the slot in turn and one of them failed after its last
\* attempt.
C25_Witness ==
    /\ mainPc = "done"
    /\ maxConcurrency = 1
    /\ Cardinality({u \in Calls : hist[u].slotsTaken >= 1}) >= 3
    /\ \E u \in Calls : outcome[u].err = Some(ErrRetriesExhausted)

\* The calls that missed the cache and got their answers from the transport.
FromTransport(u) ==
    /\ pc[u] = "done"
    /\ outcome[u].err = Nil
    /\ hist[u].cacheHits = 0
    /\ hist[u].transportCalls >= 1

\* C26: calls with the same fingerprint are not made at most once: each of
\* them that misses the cache goes to the transport, and afterwards the
\* cache holds one entry for the fingerprint, the response to one of the
\* calls that went to the transport.
C26_NoAtMostOnce ==
    \A u \in Calls :
        (pc[u] = "done" /\ outcome[u].err = Nil) =>
            /\ CacheHit(CacheKey(msgs[u]))
            /\ \E w \in Calls :
                 /\ CacheKey(msgs[w]) = CacheKey(msgs[u])
                 /\ FromTransport(w)
                 /\ outcome[w].answers = Some(Answers(cache[CacheKey(msgs[w])]))

\* Witness of C26: on a cold cache two calls with the same fingerprint both
\* missed, both asked the transport once and got different answers; the
\* cache holds one entry.
C26_Witness ==
    \E u \in Calls, w \in Calls :
        /\ u # w
        /\ CacheKey(msgs[u]) = CacheKey(msgs[w])
        /\ FromTransport(u) /\ hist[u].transportCalls = 1
        /\ FromTransport(w) /\ hist[w].transportCalls = 1
        /\ outcome[u].answers # outcome[w].answers
        /\ Cardinality(DOMAIN cache) = 1

\* The previous run returned a result for every document.
AfterSuccessfulRun == prev # Nil /\ prev[1].err = Nil

\* The first key of call u's conversation with the model stack.
Fingerprint(u) == CacheKey(BuildInputMessages(Request(u)))

\* No call for document x shares its fingerprint with another call.
Unshared(x) ==
    \A u \in UnitsOf(x[1], x[2]), w \in Calls : w # u => Fingerprint(w) # Fingerprint(u)

InUnitInterval(x) == x.den > 0 /\ x.num >= 0 /\ RatGE(One, x)

\* C28: for R >= 1 and every combination of answers of the repeats, also
\* when a key is answered by some repeats only, every result of the
\* returned mapping has its probability and its inconsistency in [0, 1].
C28_ProbabilitiesInUnitInterval ==
    Aggregated =>
        \A k \in DOMAIN probs :
            /\ InUnitInterval(probs[k].probability)
            /\ InUnitInterval(Inconsistency(probs[k]))

\* Witness of C28: three repeats answered every key of the checklist true;
\* one of them also answered a key the others lack, whose probability is
\* 1/3 and whose inconsistency is 2/3.
C28_Witness ==
    /\ Aggregated
    /\ numRepeats = 3
    /\ Cardinality({i \in DOMAIN resultsPerRepeat : ExtraKey \in resultsPerRepeat[i].keys}) = 1
    /\ ExtraKey \in DOMAIN probs
    /\ RatEq(probs[ExtraKey].probability, [num |-> 1, den |-> 3])
    /\ RatEq(Inconsistency(probs[ExtraKey]), [num |-> 2, den |-> 3])
    /\ \A k \in Keys(views[1]) : RatEq(probs[k].probability, One)

\* C29: each of the three files written for a view has the header row
\* and one row per report, in the order of the reports; the header is the
\* document identifier, the document location, one column per key of the
\* reports' checklists in ascending order, and the final score; every row
\* is as long as the header and starts with the identifier and location
\* of its report and ends with its score.
C29_ReportLayout ==
    \A v \in AllViews :
        csv[v] # Nil =>
            \A mode \in Modes :
                LET table == csv[v][1][mode]
                    header == table[1]
                    keys == KeySet(Rows(v))
                    n == Cardinality(keys)
                IN  /\ Len(table) = 1 + Len(Rows(v))
                    /\ Len(header) = n + 3
                    /\ header[1] = "FileName" /\ header[2] = "FileLoc"
                    /\ header[n + 3] = "FinalScore"
                    /\ {header[2 + j] : j \in 1..n} = keys
                    /\ \A i \in 1..n, j \in 1..n :
                         i < j => KeyRank(header[2 + i]) < KeyRank(header[2 + j])
                    /\ \A i \in DOMAIN Rows(v) :
                         /\ Len(table[i + 1]) = Len(header)
                         /\ table[i + 1][1] = <<"s", Rows(v)[i].FileName>>
                         /\ table[i + 1][2] = <<"s", Rows(v)[i].FileLoc>>
                         /\ table[i + 1][n + 3] = FormatFloat(Rows(v)[i].FinalScore)
                         /\ \A j \in 1..n :
                              table[i + 1][2 + j] = Cell(Rows(v)[i], header[2 + j], mode)

\* Witness of C29: a view's files with two rows over three key columns,
\* one of the keys being in the checklist of one report only.
C29_Witness ==
    /\ csv[1] # Nil
    /\ Len(Rows(1)) = 2
    /\ Len(csv[1][1]["Probability"]) = 3
    /\ Len(csv[1][1]["Boolean"][1]) = 6
    /\ ExtraKey \in DOMAIN Rows(1)[1].Checklist
    /\ ExtraKey \notin DOMAIN Rows(1)[2].Checklist
    /\ csv[1][1]["Boolean"][3][5] = <<"false">>
    /\ csv[1][1]["Probability"][2][5] = <<"%.3f", 1000>>
    /\ csv[1][1]["Inconsistency"][2][3] = <<"%.3f", 1000>>

\* C30: the keys of every result reviewSingleCandidate returns are exactly
\* the keys of the checklist, and no other key is a column of the view's
\* report.
C30_ResultKeysAreChecklistKeys ==
    /\ \A x \in AllReviews :
         (x[1] \in DOMAIN views /\ docPc[x] = "done" /\ docRet[x].err = Nil) =>
             DOMAIN docRet[x].res[1] = Keys(views[x[1]])
    /\ \A v \in DOMAIN views :
         files[v] # Nil => KeySet(Rows(v)) \subseteq Keys(views[v])

Sleeping == {u \in AllUnits : pc[u] = "sleep"}

\* C33: the limiter is around the retry loop. A call takes a slot once per
\* call of the model stack, before the first attempt; a failed attempt and
\* the delay after it neither give the slot back nor take another; the
\* slot is given back when the retry loop ends; the calls in a delay are
\* among the at most maxConcurrency calls counted by the limiter, and a
\* call waiting for a slot is not one of them.
C33_LimiterWrapsRetry ==
    [][/\ Cardinality(Sleeping) <= limiter
       /\ limiter <= maxConcurrency
       /\ \A u \in AllUnits :
            /\ hist[u].slotsTaken <= hist[u].modelCalls
            /\ (pc[u] = "acquire" /\ pc'[u] # "acquire") =>
                   (pc'[u] = "attempt" /\ limiter' = limiter + 1 /\ limiter < maxConcurrency)
            /\ (pc[u] = "attempt" /\ pc'[u] = "sleep") =>
                   (limiter' = limiter /\ hist'[u].slotsTaken = hist[u].slotsTaken)
            /\ (pc[u] = "sleep" /\ pc'[u] # "sleep") =>
                   (pc'[u] = "attempt" /\ limiter' = limiter
                        /\ hist'[u].slotsTaken = hist[u].slotsTaken)
            /\ (pc[u] = "attempt" /\ pc'[u] \notin {"attempt", "sleep"}) =>
                   limiter' = limiter - 1]_vars

\* Witness of C33: with one slot, a call is in the delay before its ninth
\* attempt, still on the slot it took once, and another call waits for it.
C33_Witness ==
    \E u \in Calls, w \in Calls :
        /\ maxConcurrency = 1
        /\ pc[u] = "sleep"
        /\ tries[u] = RetryModelRetries
        /\ hist[u].slotsTaken = 1
        /\ limiter = 1
        /\ pc[w] = "acquire"

\* The run met no failure: every transport is up and answers every key.
NoFailures == \A u \in AllUnits : env[u] = "up"

\* The request reviewCandidateOnce is to send for document d, repeat r of
\* view v: the whole checklist, the text of document d and the index r.
PairRequest(v, d, r) ==
    [RepeatNumber |-> r, Checklist |-> views[v], Resume |-> pdfContents[d]]

\* C34: on a cold cache, with no failures, a non-empty checklist and at
\* least one document, a finished ReviewCandidates has called the pipeline
\* for len(resumes) * repeats units: for every document d and every repeat
\* r below the repeat count exactly once, with the prompt of the whole
\* checklist, the text of d and the index r, and for no other unit; a call
\* once issued is never issued again nor given another prompt.
C34_OneCallPerPair ==
    /\ [](NoFailures /\ mainPc = "done" =>
            \A v \in DOMAIN views :
                (views[v] # {} /\ Len(pdfContents) > 0) =>
                    /\ Cardinality({u \in AllUnits : u[1] = v /\ hist[u].modelCalls > 0})
                           = Len(pdfContents) * numRepeats
                    /\ \A d \in DOMAIN pdfContents, r \in 0..(numRepeats - 1) :
                         /\ pc[<<v, d, r>>] = "done"
                         /\ hist[<<v, d, r>>].modelCalls = 1
                         /\ msgs[<<v, d, r>>] =
                                [prompt |-> Render(PairRequest(v, d, r)), turns |-> <<>>]
                    /\ \A u \in AllUnits :
                         (u[1] = v /\ (u[2] \notin DOMAIN pdfContents \/ u[3] >= numRepeats))
                             => (pc[u] = "idle" /\ hist[u].modelCalls = 0))
    /\ [][NoFailures =>
            \A u \in AllUnits :
                /\ pc[u] # "idle" =>
                     (pc'[u] # "idle" /\ msgs'[u].prompt = msgs[u].prompt)
                /\ hist'[u].modelCalls # hist[u].modelCalls =>
                     (hist[u].modelCalls = 0 /\ hist'[u].modelCalls = 1)]_vars

\* Witness of C34: two different documents reviewed twice each without a
\* failure: the run is over and each of the four units was called once.
C34_Witness ==
    /\ NoFailures
    /\ mainPc = "done"
    /\ mainRet.err = Nil
    /\ numRepeats = 2
    /\ Len(pdfContents) = 2
    /\ pdfContents[1] # pdfContents[2]
    /\ \A d \in 1..2, r \in 0..1 :
         /\ hist[<<1, d, r>>].modelCalls = 1
         /\ msgs[<<1, d, r>>].prompt = Render(PairRequest(1, d, r))

(***************************************************************************)
(* Claims about the file CV store, checked under SpecCVStore.              *)
(***************************************************************************)
\* The ids that have a CV stored under them and not deleted since.
CurrentlyStored == {id \in IDs : stored[id] # Nil}

\* The elements of a slice.
Range(sq) == {sq[i] : i \in 1..Len(sq)}

\* C35: after any sequence of StoreCV and DeleteCV, GetCV(id) returns the
\* CV most recently stored under id and not deleted since, and
\* ErrCVNotFound if there is none; DeleteCV of an id that is not stored
\* returns ErrCVNotFound and leaves the stored CVs as they are; ListCVIDs
\* returns exactly the ids currently stored.
C35_StoreContract ==
    [][/\ cvRet'.op = "GetCV" =>
            IF stored[cvRet'.id[1]] # Nil
            THEN cvRet'.err = Nil /\ cvRet'.cv = stored[cvRet'.id[1]]
            ELSE cvRet'.err = Some(ErrCVNotFound)
       /\ (cvRet'.op = "DeleteCV" /\ stored[cvRet'.id[1]] = Nil) =>
            /\ cvRet'.err = Some(ErrCVNotFound)
            /\ dir' = dir
       /\ cvRet'.op = "ListCVIDs" =>
            Range(cvRet'.ids[1]) = CurrentlyStored]_vars

(***************************************************************************)
(* Claims about the configuration's JSON form, checked under SpecConfig.   *)
(***************************************************************************)
\* C36: a checklist item whose object has no weight is decoded with the
\* weight 1, an item whose object has a weight with that weight, the weight
\* 0 included; and every decoded item x, once encoded by MarshalJSON and
\* decoded by UnmarshalJSON, is an item equal to x.
C36_WeightDefaultAndRoundTrip ==
    /\ jsonPc \in {"loaded", "encoded", "reloaded"} =>
         /\ data[1].weight = Nil => checklistItem[1].Weight = [num |-> 1, den |-> 1]
         /\ data[1].weight \in {Some("0"), Some("0.0")} =>
                checklistItem[1].Weight = [num |-> 0, den |-> 1]
         /\ data[1].weight = Some("2") => checklistItem[1].Weight = [num |-> 2, den |-> 1]
    /\ jsonPc = "reloaded" => decoded = checklistItem

\* Witness of C36: an important item written without a weight was decoded
\* with the weight 1, encoded without a weight and decoded again as the
\* same item; its question holds a "<" that was encoded as an escape.
C36_Witness ==
    /\ jsonPc = "reloaded"
    /\ data[1].weight = Nil
    /\ checklistItem[1].Weight = [num |-> 1, den |-> 1]
    /\ checklistItem[1].Important
    /\ checklistItem[1].Question = <<"<", "q2">>
    /\ encoded[1].weight = Nil
    /\ encoded[1].question = Some(<<"\\u003c", "q2">>)
    /\ decoded = checklistItem

====
